---- MODULE Spec2Model ----
(***************************************************************************)
(* Model of the Medical Affairs Research Assistant:                        *)
(*   - PubMedClient (search, getAbstract, getAbstracts, searchFull),       *)
(*   - VeniceClient.generate,                                              *)
(*   - MAResearchAgent.research (single-shot workflow),                    *)
(*   - MultiAgentResearchSystem.research and its four agents.              *)
(* Strings are sequences of one-character strings, so that split, trim,    *)
(* substring, toLowerCase, includes and the regular expressions of the     *)
(* source are computed and not assumed.                                    *)
(***************************************************************************)
EXTENDS Integers, Sequences, FiniteSets, TLC

\* ------------------------------------------------------------------ bounds
MaxParseLines == 6
MaxFallbackLines == 3
MaxWords == 4
MaxSearchIds == 3
MaxLongIds == 11
MaxPayload == 4
MaxClock == 1
MaxPipeIds == 1
MaxArgs == 3
MaxLines == 3

\* ------------------------------------------------------- program constants
FallbackLen == 200
MinDescLen == 20
EvidenceCap == 5
EnrichCap == 10
DefaultSearchMax == 20
DefaultFullMax == 15
FilteredMax == 20
IdeationDefaultMax == 20
DefaultMaxTokens == 4000
DefaultTemperature == 7

\* ---------------------------------------------------------- string helpers
MinOf(S) == CHOOSE x \in S : \A y \in S : x <= y
MaxOf(S) == CHOOSE x \in S : \A y \in S : x >= y

Rep(c, n) == [i \in 1..n |-> c]

Digits == {"0", "1", "2", "3", "4", "5", "6", "7", "8", "9"}
WhiteSpace == {" ", "\t", "\r"}

UpperLetters == <<"A", "B", "C", "D", "E", "F", "G", "H", "I", "J", "K", "L", "M",
                  "N", "O", "P", "Q", "R", "S", "T", "U", "V", "W", "X", "Y", "Z">>
LowerLetters == <<"a", "b", "c", "d", "e", "f", "g", "h", "i", "j", "k", "l", "m",
                  "n", "o", "p", "q", "r", "s", "t", "u", "v", "w", "x", "y", "z">>

\* String.prototype.toLowerCase, one character
LowerChar(c) ==
  IF \E i \in 1..Len(UpperLetters) : UpperLetters[i] = c
    THEN LowerLetters[CHOOSE i \in 1..Len(UpperLetters) : UpperLetters[i] = c]
    ELSE c

ToLowerCase(s) == [i \in 1..Len(s) |-> LowerChar(s[i])]

\* String.prototype.includes
Includes(s, p) == \E i \in 1..(Len(s) - Len(p) + 1) : SubSeq(s, i, i + Len(p) - 1) = p

\* String.prototype.substring(a, b), 0 <= a <= b
Substring(s, a, b) == SubSeq(s, a + 1, IF b < Len(s) THEN b ELSE Len(s))

\* String.prototype.trim
Trim(s) ==
  LET keep == {i \in 1..Len(s) : s[i] \notin WhiteSpace}
  IN IF keep = {} THEN <<>> ELSE SubSeq(s, MinOf(keep), MaxOf(keep))

\* String.prototype.split("\n")
RECURSIVE Split(_)
Split(s) ==
  LET nl == {i \in 1..Len(s) : s[i] = "\n"}
  IN IF nl = {} THEN <<s>>
     ELSE <<SubSeq(s, 1, MinOf(nl) - 1)>> \o Split(SubSeq(s, MinOf(nl) + 1, Len(s)))

\* number of leading characters of s that belong to the set cs
LeadingRun(s, cs) ==
  LET stop == {i \in 1..Len(s) : s[i] \notin cs}
  IN IF stop = {} THEN Len(s) ELSE MinOf(stop) - 1

DropLeading(s, n) == SubSeq(s, n + 1, Len(s))

HypothesisWord == <<"h", "y", "p", "o", "t", "h", "e", "s", "i", "s">>

\* length of the match of /^\d+[\.)]/ on line, 0 when there is none
NumberingLen(line) ==
  LET d == LeadingRun(line, Digits)
  IN IF d >= 1 /\ d < Len(line) /\ line[d + 1] \in {".", ")"} THEN d + 1 ELSE 0

\* line.replace(/^\d+[\.)]\s*/, "")
StripNumbering(line) ==
  LET m == NumberingLen(line)
  IN IF m = 0 THEN line
     ELSE LET rest == DropLeading(line, m)
          IN DropLeading(rest, LeadingRun(rest, WhiteSpace))

\* s.replace(/hypothesis[:\s]*/i, ""): the first match only
StripHypothesis(s) ==
  LET low == ToLowerCase(s)
      at == {i \in 1..(Len(s) - Len(HypothesisWord) + 1) :
               SubSeq(low, i, i + Len(HypothesisWord) - 1) = HypothesisWord}
  IN IF at = {} THEN s
     ELSE LET i == MinOf(at)
              rest == DropLeading(s, i + Len(HypothesisWord) - 1)
          IN SubSeq(s, 1, i - 1) \o DropLeading(rest, LeadingRun(rest, WhiteSpace \cup {":"}))

\* ----------------------------------------------- IdeationAgent.parseHypotheses
\* the condition that starts a new hypothesis record
IsHeaderLine(line) == NumberingLen(line) > 0 \/ Includes(ToLowerCase(line), HypothesisWord)

\* the condition under which a line is taken as importance / validation
QualifiesMutGE(line) == Len(line) >= MinDescLen
Qualifies(line) == Len(line) > MinDescLen

NewHypothesis(line, articles) ==
  [statement |-> StripHypothesis(StripNumbering(line)),
   importance |-> <<>>,
   validation |-> <<>>,
   evidence |-> SubSeq(articles, 1, IF Len(articles) < EvidenceCap THEN Len(articles) ELSE EvidenceCap),
   passedReview |-> TRUE]

\* one iteration of the loop over lines; cur is <<>> (null) or <<record>>
RECURSIVE ParseLoop(_, _, _, _, _)
ParseLoop(lines, i, hyps, cur, articles) ==
  IF i > Len(lines) THEN hyps \o cur
  ELSE LET line == Trim(lines[i])
       IN IF IsHeaderLine(line)
            THEN ParseLoop(lines, i + 1, hyps \o cur, <<NewHypothesis(line, articles)>>, articles)
          ELSE IF cur # <<>> /\ Qualifies(line)
            THEN IF cur[1].importance = <<>>
                   THEN ParseLoop(lines, i + 1, hyps, <<[cur[1] EXCEPT !.importance = line]>>, articles)
                 ELSE IF cur[1].validation = <<>>
                   THEN ParseLoop(lines, i + 1, hyps, <<[cur[1] EXCEPT !.validation = line]>>, articles)
                 ELSE ParseLoop(lines, i + 1, hyps, cur, articles)
          ELSE ParseLoop(lines, i + 1, hyps, cur, articles)

FallbackHypothesisMutShort(t) == [statement |-> Substring(t, 0, MinDescLen), passedReview |-> TRUE]
FallbackHypothesis(t) == [statement |-> Substring(t, 0, FallbackLen), passedReview |-> TRUE]

ParseHypotheses(t, articles) ==
  LET hyps == ParseLoop(Split(t), 1, <<>>, <<>>, articles)
  IN IF Len(hyps) > 0 THEN hyps ELSE <<FallbackHypothesis(t)>>

\* ------------------------------------------------------------ input lines
\* Lines a generated answer is made of: what the line is (kind) and its text.
LineNames == {"numDot", "numParHyp", "hypOnly", "qualA", "qualB", "short",
              "padShort", "digitLine", "long", "blank"}

LineRaw(n) ==
  CASE n = "numDot"    -> <<"1", ".", " ", "A", "b">>
    [] n = "numParHyp" -> <<"\t", "1", "2", ")", " ", "H", "y", "p", "o", "t", "h", "e", "s", "i", "s", ":", " ", "C">>
    [] n = "hypOnly"   -> <<" ", "H", "Y", "P", "O", "T", "H", "E", "S", "I", "S", " ", "d">>
    [] n = "qualA"     -> <<" ", " ">> \o Rep("q", 21) \o <<" ">>
    [] n = "qualB"     -> Rep("r", 22) \o <<"2", ".">>
    [] n = "short"     -> Rep("s", 20)
    [] n = "padShort"  -> Rep(" ", 5) \o Rep("w", 18)
    [] n = "digitLine" -> <<"7", " ">> \o Rep("d", 20)
    [] n = "long"      -> Rep("v", 120)
    [] n = "blank"     -> <<>>

\* what the line is, as the producer of the text meant it
LineKind(n) ==
  CASE n \in {"numDot", "numParHyp"} -> "numbered"
    [] n = "hypOnly" -> "labelled"
    [] n \in {"qualA", "qualB", "digitLine", "long"} -> "description"
    [] OTHER -> "filler"

\* the text of the line without its surrounding white space
LineBody(n) ==
  CASE n = "qualA" -> Rep("q", 21)
    [] n = "padShort" -> Rep("w", 18)
    [] n = "numParHyp" -> DropLeading(LineRaw(n), 1)
    [] n = "hypOnly" -> DropLeading(LineRaw(n), 1)
    [] OTHER -> LineRaw(n)

ParseLineNames == {"numDot", "numParHyp", "qualA", "qualB", "short"}
FallbackLineNames == LineNames

SampleArticles == <<[pmid |-> 1], [pmid |-> 2], [pmid |-> 3], [pmid |-> 4], [pmid |-> 5], [pmid |-> 6]>>

VARIABLES
  clock,       \* the wall clock read by Date.now() / new Date()
  text,        \* parseHypotheses: the generated answer being parsed
  lineSrc,     \* parseHypotheses: the lines the answer was made of (history)
  parsed,      \* parseHypotheses: the returned hypotheses
  ppc,         \* parseHypotheses: "idle", "input" or "parsed"
  analysis,    \* ExecutionAgent.run: the analysis text the generative call returned
  wordSrc,     \* ExecutionAgent.run: the words the analysis was made of (history)
  execResult,  \* ExecutionAgent.run: <<>> or <<the returned result>>
  paperRec,    \* WritingAgent.write: <<>> or <<the returned paper>>
  npc,         \* execution/writing: "idle", "input", "ran" or "written"
  pmCall,      \* PubMedClient: the method called: "none", "search", "getAbstract", "searchFull"
  pmPc,        \* PubMedClient: "idle", the request awaited ("esearch", "esummary",
               \*   "efetch"), "sleep", "returned" or "threw"
  pmRetmax,    \* PubMedClient.search: maxResults, sent as retmax
  idList,      \* PubMedClient.search: esearchresult.idlist
  esKinds,     \* PubMedClient.search: what the summary response holds for each identifier
  pmArticles,  \* PubMedClient: the articles of search
  pmPmids,     \* PubMedClient.getAbstracts: its argument (or <<pmid>> for getAbstract)
  pmAbstracts, \* PubMedClient.getAbstracts: results
  pmI,         \* PubMedClient.getAbstracts: loop index i (1-based)
  pmResult,    \* PubMedClient: the value the called method returned
  fetchLog,    \* history: the identifiers abstract fetches were issued for, in order
  efBehaviour, \* how the efetch endpoint answers during this run
  efResp,      \* history: the last answer of the efetch endpoint
  pmError,     \* PubMedClient: message of the error the called method threw, or ""
  vPc,         \* VeniceClient.generate: "idle" or "request" (awaiting the endpoint)
  veniceCalls, \* history: the Generative Client methods called, in order
  veniceAnswers, \* history: how the generative endpoint answered each call
  outputCalls, \* history: the Document Generator methods called, in order
  outputAnswers, \* history: how each Document Generator call ended
  agPc,        \* MAResearchAgent.research: "idle", "search", "synthesize", "format", "done"
  agTask,      \* MAResearchAgent.research: taskType
  agOpts,      \* MAResearchAgent.research: options
  agSearches,  \* research: the PubMedClient calls made, [method, filter, maxResults] (history)
  agStart,     \* MAResearchAgent.research: startTime
  agArticles,  \* MAResearchAgent.research: articles
  agSummary,   \* MAResearchAgent.research: summary (<<>> is undefined, else <<text>>)
  agSettled,   \* MAResearchAgent.research: <<>> while pending, else <<[outcome, value]>>
  plPc,        \* MultiAgentResearchSystem.research: "idle", "created", the call awaited
               \*   ("ideationSearch", "ideationGenerate", "planning", "execution",
               \*   "writing"), "done" or "rejected"
  plI,         \* research: index of the hypothesis / plan / result being processed
  plOpts,      \* research: options
  currentProject, \* this.currentProject: <<>> (null) or <<project>>
  files,       \* the workspace on disk: the writes made, [dir, name, data], in order
  plLog,       \* history: stage entries, checkpoint writes and calls, in code order
  hypotheses,  \* research: hypotheses
  validHypotheses, \* research: validHypotheses
  plans,       \* research: plans
  results,     \* research: results
  papers,      \* research: papers
  plSettled,   \* research: <<>> while pending, else <<[outcome, value]>>
  genPc,       \* VeniceClient.generate: "idle", "request", "returned" or "threw"
  genRequest,  \* generate: the body posted to /chat/completions, <<>> before the call
  genResp,     \* generate: what the upstream answered (history), <<>> before
  genResult,   \* generate: <<>> while pending, else <<how it ended>>
  ckRead,      \* readState: <<>> before the call, else <<[name, value]>>
  coCall,      \* new MAResearchAgent(...): who calls it, with what argument
  coResult,    \* new MAResearchAgent(...): <<>> before, else <<[threw, error, agent]>>
  cliArgs,     \* cli.js: process.argv.slice(2)
  cliPc,       \* cli.js: "start", "awaiting" (a promise is pending) or "exited"
  cliOut,      \* cli.js: what was printed
  cliExit,     \* cli.js: <<>> while running, else <<exit code>>
  cliParsed,   \* cli.js: <<>> or <<[query, taskType, options]>> taken from the arguments
  runPc,       \* two research calls: where each stands
  runI,        \* two research calls: the loop index of each
  runValid,    \* two research calls: validHypotheses.length of each
  runProject,  \* two research calls: project of each, <<>> before startProject
  runSettled,  \* two research calls: <<>> while pending, else <<[outcome, project]>>
  runWrites,   \* two research calls: the writes made, [run, name, dir] (history)
  iaPc,        \* interactive: "idle", "prompt" (rl.question pending), the call awaited
               \*   ("search", "abstract", "research"), "closed", "crashed" or "stalled"
  iaLines,     \* interactive: the lines read from standard input (history)
  iaPrompts,   \* interactive: how many times the prompt was issued (history)
  iaResult     \* interactive: <<>> or <<how the last awaited call ended>>

parseVars == <<text, lineSrc, parsed, ppc>>
negVars == <<analysis, wordSrc, execResult, paperRec, npc>>
pmVars == <<pmCall, pmPc, pmRetmax, idList, esKinds, pmArticles, pmPmids, pmAbstracts,
           pmI, pmResult, fetchLog, efBehaviour, efResp, pmError>>
ioVars == <<vPc, veniceCalls, veniceAnswers, outputCalls, outputAnswers>>
agVars == <<agPc, agTask, agOpts, agSearches, agStart, agArticles, agSummary, agSettled>>
plVars == <<plPc, plI, plOpts, currentProject, files, plLog, hypotheses, validHypotheses,
           plans, results, papers, plSettled>>
genVars == <<genPc, genRequest, genResp, genResult>>
coVars == <<coCall, coResult>>
cliVars == <<cliArgs, cliPc, cliOut, cliExit, cliParsed>>
runVars == <<runPc, runI, runValid, runProject, runSettled, runWrites>>
iaVars == <<iaPc, iaLines, iaPrompts, iaResult>>
moreVars == <<runVars, iaVars>>
restVars == <<genVars, ckRead, coVars, cliVars, moreVars>>
vars == <<clock, parseVars, negVars, pmVars, ioVars, agVars, plVars, restVars>>

\* what the actions of one component leave alone
notParseVars == <<clock, negVars, pmVars, ioVars, agVars, plVars, restVars>>
notNegVars == <<parseVars, pmVars, ioVars, agVars, plVars, restVars>>
notPmVars == <<clock, parseVars, negVars, ioVars, agVars, plVars, restVars>>
notAgVars == <<parseVars, negVars, plVars, restVars>>
notPlVars == <<parseVars, negVars, agVars, restVars>>
notGenVars == <<clock, parseVars, negVars, pmVars, ioVars, agVars, plVars, ckRead, coVars,
                cliVars, moreVars>>
notCkVars == <<clock, parseVars, negVars, pmVars, ioVars, agVars, genVars, coVars, cliVars,
               moreVars>>
notCliVars == <<clock, parseVars, negVars, pmVars, ioVars, agVars, plVars, genVars, ckRead,
                moreVars>>

ParseIdle == text = <<>> /\ lineSrc = <<>> /\ parsed = <<>> /\ ppc = "idle"
\* a fresh PubMedClient, facing an efetch endpoint of one of the given behaviours
PmIdleWith(behaviours) ==
  /\ pmCall = "none" /\ pmPc = "idle" /\ pmRetmax = 0 /\ idList = <<>> /\ esKinds = <<>>
  /\ pmArticles = <<>> /\ pmPmids = <<>> /\ pmAbstracts = <<>> /\ pmI = 0
  /\ pmResult = <<>> /\ fetchLog = <<>> /\ efBehaviour \in behaviours /\ efResp = <<>>
  /\ pmError = ""
PmIdle == PmIdleWith({"free"})
IoIdle ==
  /\ vPc = "idle" /\ veniceCalls = <<>> /\ veniceAnswers = <<>>
  /\ outputCalls = <<>> /\ outputAnswers = <<>>
AgIdle ==
  /\ agPc = "idle" /\ agTask = "" /\ agOpts = <<>> /\ agSearches = <<>> /\ agStart = 0
  /\ agArticles = <<>>
  /\ agSummary = <<>> /\ agSettled = <<>>
PlIdle ==
  /\ plPc = "idle" /\ plI = 0 /\ plOpts = <<>> /\ currentProject = <<>> /\ files = <<>>
  /\ plLog = <<>> /\ hypotheses = <<>> /\ validHypotheses = <<>> /\ plans = <<>>
  /\ results = <<>> /\ papers = <<>> /\ plSettled = <<>>
GenIdle == genPc = "idle" /\ genRequest = <<>> /\ genResp = <<>> /\ genResult = <<>>
CkIdle == ckRead = <<>>
CoIdle == coCall = <<>> /\ coResult = <<>>
CliIdle == cliArgs = <<>> /\ cliPc = "idle" /\ cliOut = <<>> /\ cliExit = <<>> /\ cliParsed = <<>>
Runs == {"first", "second"}
RunIdle ==
  /\ runPc = [r \in Runs |-> "idle"] /\ runI = [r \in Runs |-> 0]
  /\ runValid = [r \in Runs |-> 0] /\ runProject = [r \in Runs |-> <<>>]
  /\ runSettled = [r \in Runs |-> <<>>] /\ runWrites = <<>>
IaIdle == iaPc = "idle" /\ iaLines = <<>> /\ iaPrompts = 0 /\ iaResult = <<>>
MoreIdle == RunIdle /\ IaIdle
RestIdle == GenIdle /\ CkIdle /\ CoIdle /\ CliIdle /\ MoreIdle
NegIdle == analysis = <<>> /\ wordSrc = <<>> /\ execResult = <<>> /\ paperRec = <<>> /\ npc = "idle"

\* the answer starts with some line
ParseStart(names) ==
  /\ \E n \in names : text = LineRaw(n) /\ lineSrc = <<n>>
  /\ parsed = <<>>
  /\ ppc = "input"

\* the answer goes on with one more line
AppendLine(names, maxLines) ==
  /\ ppc = "input"
  /\ Len(lineSrc) < maxLines
  /\ \E n \in names :
       /\ text' = text \o <<"\n">> \o LineRaw(n)
       /\ lineSrc' = Append(lineSrc, n)
  /\ UNCHANGED <<parsed, ppc, notParseVars>>

\* IdeationAgent.parseHypotheses(text, articles)
IdeationParse ==
  /\ ppc = "input"
  /\ parsed' = ParseHypotheses(text, SampleArticles)
  /\ ppc' = "parsed"
  /\ UNCHANGED <<text, lineSrc, notParseVars>>

ParseInit == ParseStart(ParseLineNames) /\ clock = 0 /\ NegIdle /\ PmIdle /\ IoIdle /\ AgIdle /\ PlIdle /\ RestIdle
ParseNext == AppendLine(ParseLineNames, MaxParseLines) \/ IdeationParse
SpecParse == ParseInit /\ [][ParseNext]_vars

FallbackInit == ParseStart(FallbackLineNames) /\ clock = 0 /\ NegIdle /\ PmIdle /\ IoIdle /\ AgIdle /\ PlIdle /\ RestIdle
FallbackNext == AppendLine(FallbackLineNames, MaxFallbackLines) \/ IdeationParse
SpecFallback == FallbackInit /\ [][FallbackNext]_vars

\* ------------------------------------- ExecutionAgent.run / WritingAgent.write
InsufficientWord == <<"i", "n", "s", "u", "f", "f", "i", "c", "i", "e", "n", "t">>
LimitedEvidenceWords == <<"l", "i", "m", "i", "t", "e", "d", " ", "e", "v", "i", "d", "e", "n", "c", "e">>

\* the negativeResult expression of ExecutionAgent.run
NegativeResultMutCase(a) == Includes(a, InsufficientWord) \/ Includes(a, LimitedEvidenceWords)
NegativeResult(a) ==
  Includes(ToLowerCase(a), InsufficientWord) \/ Includes(ToLowerCase(a), LimitedEvidenceWords)

\* the record ExecutionAgent.run returns for the analysis text a, read at time t
ExecutionResult(plan, a, t) ==
  [plan |-> plan, analysis |-> a, status |-> "completed",
   negativeResult |-> NegativeResult(a), timestamp |-> t]

\* the record WritingAgent.write returns for the generated paper p (<<>> is
\* undefined, else <<text>>), read at time t
PaperRecord(result, p, t) ==
  [paper |-> p, hypothesis |-> result.plan.hypothesis.statement,
   isNegativeResult |-> result.negativeResult, timestamp |-> t]

DataSources == <<"PubMed", "ClinicalTrials.gov", "Internal data">>

\* the record PlanningAgent.createPlan returns for the generated methodology m
\* (<<>> is undefined, else <<text>>)
PlanRecordMutOther(hypothesis, m) ==
  [hypothesis |-> [hypothesis EXCEPT !.passedReview = FALSE], methodology |-> m,
   dataSources |-> DataSources, timeline |-> "Auto-estimated"]
PlanRecord(hypothesis, m) ==
  [hypothesis |-> hypothesis, methodology |-> m,
   dataSources |-> DataSources, timeline |-> "Auto-estimated"]

\* new Date(): the clock may or may not have advanced since the last reading
ReadingsAfter(t) == {t} \cup (IF t < MaxClock THEN {t + 1} ELSE {})
ClockReadings == ReadingsAfter(clock)

\* words an analysis text is made of
WordNames == {"insuff", "insuffMixed", "spEvidence", "evidence", "limited", "in",
              "sufficient", "space"}

WordRaw(n) ==
  CASE n = "insuff"      -> InsufficientWord
    [] n = "insuffMixed" -> <<"I", "N", "S", "U", "F", "F", "i", "c", "i", "e", "n", "T">>
    [] n = "spEvidence"  -> <<" ", "E", "v", "i", "d", "e", "n", "c", "e">>
    [] n = "evidence"    -> <<"e", "v", "i", "d", "e", "n", "c", "e">>
    [] n = "limited"     -> <<"L", "i", "m", "i", "t", "e", "d">>
    [] n = "in"          -> <<"i", "n">>
    [] n = "sufficient"  -> <<"s", "u", "f", "f", "i", "c", "i", "e", "n", "t">>
    [] n = "space"       -> <<" ">>

SamplePlan == PlanRecord(FallbackHypothesis(<<"G", "L", "P">>), <<<<"m">>>>)
SamplePaperText == <<<<"p">>>>

NegStart ==
  /\ \E n \in WordNames : analysis = WordRaw(n) /\ wordSrc = <<n>>
  /\ execResult = <<>>
  /\ paperRec = <<>>
  /\ npc = "input"

\* the generated analysis goes on with one more word
AppendWord ==
  /\ npc = "input"
  /\ Len(wordSrc) < MaxWords
  /\ \E n \in WordNames :
       /\ analysis' = analysis \o WordRaw(n)
       /\ wordSrc' = Append(wordSrc, n)
  /\ UNCHANGED <<execResult, paperRec, npc, clock, notNegVars>>

\* ExecutionAgent.run, from the return of its generative call
ExecutionRun ==
  /\ npc = "input"
  /\ \E t \in ClockReadings :
       /\ clock' = t
       /\ execResult' = <<ExecutionResult(SamplePlan, analysis, t)>>
  /\ npc' = "ran"
  /\ UNCHANGED <<analysis, wordSrc, paperRec, notNegVars>>

\* WritingAgent.write, from the return of its generative call
WritingWrite ==
  /\ npc = "ran"
  /\ \E t \in ClockReadings :
       /\ clock' = t
       /\ paperRec' = <<PaperRecord(execResult[1], SamplePaperText, t)>>
  /\ npc' = "written"
  /\ UNCHANGED <<analysis, wordSrc, execResult, notNegVars>>

NegInit == NegStart /\ clock = 0 /\ ParseIdle /\ PmIdle /\ IoIdle /\ AgIdle /\ PlIdle /\ RestIdle
NegNext == AppendWord \/ ExecutionRun \/ WritingWrite
SpecNegative == NegInit /\ [][NegNext]_vars

\* ------------------------------------------------------------ PubMedClient
\* identifiers, as the search endpoint hands them out
IdOf(i) == ToString(100 + i)

Reverse(q) == [i \in 1..Len(q) |-> q[Len(q) + 1 - i]]

\* sequences without repetition over the set S, of length at most n
RECURSIVE InjectiveSeqs(_, _)
InjectiveSeqs(S, n) ==
  IF n = 0 THEN {<<>>}
  ELSE LET shorter == InjectiveSeqs(S, n - 1)
           longest == {r \in shorter : Len(r) = n - 1}
           grown == UNION {{Append(q, x) : x \in S \ {q[i] : i \in 1..Len(q)}} : q \in longest}
       IN shorter \cup grown

\* identifier lists of the search endpoint: every order of a few identifiers
SmallIdLists == InjectiveSeqs({IdOf(i) : i \in 1..MaxSearchIds}, MaxSearchIds)
\* identifier lists of the search endpoint: long lists, ascending or descending
LongIdLists ==
  {[i \in 1..n |-> IdOf(i)] : n \in 0..MaxLongIds} \cup
  {Reverse([i \in 1..n |-> IdOf(i)]) : n \in 0..MaxLongIds}

\* what the summary response holds for an identifier
ItemKinds == {"full", "noTitle", "noUid", "missing"}

\* results[id] of the summary response, for an identifier that has an entry
Item(id, kind) ==
  [uid |-> IF kind = "noUid" THEN "" ELSE id,
   title |-> IF kind = "noTitle" THEN "" ELSE "Some title"]

IdsOf(list) == {list[i] : i \in 1..Len(list)}

\* the summary responses considered for the identifier list
SummaryChoices(list, mode) ==
  IF mode = "any" THEN [IdsOf(list) -> ItemKinds]
  ELSE {[id \in IdsOf(list) |-> "full"],
        [id \in IdsOf(list) |-> IF id = list[1] THEN "missing" ELSE "full"],
        [id \in IdsOf(list) |-> IF id = list[Len(list)] THEN "noUid" ELSE "full"]}

\* articles.push({...}) of PubMedClient.search
Article(item) ==
  [pmid |-> item.uid,
   title |-> IF item.title # "" THEN item.title ELSE "No title",
   abstract |-> <<>>]

\* the loop of PubMedClient.search over idList
RECURSIVE SearchLoopMutUnshift(_, _, _, _)
SearchLoopMutUnshift(list, kinds, i, articles) ==
  IF i > Len(list) THEN articles
  ELSE LET id == list[i]
       IN IF kinds[id] # "missing" /\ Item(id, kinds[id]).uid # ""
            THEN SearchLoopMutUnshift(list, kinds, i + 1, <<Article(Item(id, kinds[id]))>> \o articles)
            ELSE SearchLoopMutUnshift(list, kinds, i + 1, articles)

RECURSIVE SearchLoop(_, _, _, _)
SearchLoop(list, kinds, i, articles) ==
  IF i > Len(list) THEN articles
  ELSE LET id == list[i]
       IN IF kinds[id] # "missing" /\ Item(id, kinds[id]).uid # ""
            THEN SearchLoop(list, kinds, i + 1, Append(articles, Article(Item(id, kinds[id]))))
            ELSE SearchLoop(list, kinds, i + 1, articles)

\* --- getAbstract: the markup payload is a sequence of tokens
\* AO/AC: <AbstractText ...> and </AbstractText>; TO/TC: <ArticleTitle> and
\* </ArticleTitle>; PO/PC: <PubDate> and </PubDate>; Y: <Year>2020</Year>;
\* TAG: any other tag; every other token is a piece of text
TagTokens == {"AO", "AC", "TO", "TC", "PO", "PC", "TAG"}
PayloadTokens == TagTokens \cup {"Y", "a", " "}

\* s.replace(/<[^>]+>/g, ""), one token
TokenText(t) ==
  IF t \in TagTokens THEN <<>>
  ELSE IF t = "Y" THEN <<"2", "0", "2", "0">>
  ELSE <<t>>

RECURSIVE StripTags(_)
StripTags(tokens) ==
  IF tokens = <<>> THEN <<>> ELSE TokenText(Head(tokens)) \o StripTags(Tail(tokens))

\* data.match(/<open>([\s\S]*?)<close>/i): <<>> when there is no match, else
\* <<group 1>>; the leftmost opening tag that has a closing tag after it, up
\* to the first such closing tag
TagMatch(data, open, close) ==
  LET starts == {i \in 1..Len(data) : data[i] = open /\ \E j \in (i + 1)..Len(data) : data[j] = close}
  IN IF starts = {} THEN <<>>
     ELSE LET i == MinOf(starts)
              j == MinOf({k \in (i + 1)..Len(data) : data[k] = close})
          IN <<SubSeq(data, i + 1, j - 1)>>

\* data.match(/<PubDate>[\s\S]*?<Year>(\d{4})<\/Year>[\s\S]*?<\/PubDate>/i)
PubDateMatch(data) ==
  \E i, j, k \in 1..Len(data) : i < j /\ j < k /\ data[i] = "PO" /\ data[j] = "Y" /\ data[k] = "PC"

\* answers of the efetch endpoint
FailedResponse == [kind |-> "fail", data |-> <<>>]
ObjectResponse == [kind |-> "object", data |-> <<>>]
TextResponse(tokens) == [kind |-> "text", data |-> tokens]

\* the record PubMedClient.getAbstract returns, try block and catch block
GetAbstractRecordMutNoError(pmid, resp) ==
  IF resp.kind # "text" THEN [pmid |-> pmid, abstract |-> <<>>]
  ELSE LET am == TagMatch(resp.data, "AO", "AC")
       IN [pmid |-> pmid, abstract |-> IF am = <<>> THEN <<>> ELSE Trim(StripTags(am[1]))]
GetAbstractRecord(pmid, resp) ==
  IF resp.kind = "fail" THEN [pmid |-> pmid, abstract |-> <<>>, error |-> "request failed"]
  ELSE IF resp.kind = "object"
    THEN [pmid |-> pmid, abstract |-> <<>>, error |-> "response.data.match is not a function"]
  ELSE LET am == TagMatch(resp.data, "AO", "AC")
           tm == TagMatch(resp.data, "TO", "TC")
           abstractText == IF am = <<>> THEN <<>> ELSE Trim(StripTags(am[1]))
           title == IF tm = <<>> THEN <<>> ELSE Trim(StripTags(tm[1]))
       IN IF tm # <<>> /\ PubDateMatch(resp.data)
            THEN [pmid |-> pmid, abstract |-> abstractText, title |-> title, pubYear |-> "2020"]
          ELSE IF tm # <<>>
            THEN [pmid |-> pmid, abstract |-> abstractText, title |-> title]
          ELSE IF PubDateMatch(resp.data)
            THEN [pmid |-> pmid, abstract |-> abstractText, pubYear |-> "2020"]
          ELSE [pmid |-> pmid, abstract |-> abstractText]

\* a well-formed payload for pmid, its abstract text naming the pmid
GoodPayload(pmid) == <<"TO", "a", "TC", "PO", "Y", "PC", "AO", " ", pmid, "TAG", "a", " ", "AC">>
\* a payload without an abstract element
BarePayload == <<"TO", "a", "TC">>

RECURSIVE TokenSeqs(_)
TokenSeqs(n) ==
  IF n = 0 THEN {<<>>}
  ELSE LET shorter == TokenSeqs(n - 1)
       IN shorter \cup {Append(q, t) : q \in {r \in shorter : Len(r) = n - 1}, t \in PayloadTokens}

\* the answers of the efetch endpoint to the request for pmid, i-th of the batch
EfetchChoices(pmid, i) ==
  CASE efBehaviour = "free" ->
         {TextResponse(GoodPayload(pmid)), TextResponse(BarePayload), FailedResponse, ObjectResponse}
    [] efBehaviour = "any" ->
         {TextResponse(q) : q \in TokenSeqs(MaxPayload)} \cup {FailedResponse, ObjectResponse}
    [] efBehaviour = "ok" -> {TextResponse(GoodPayload(pmid))}
    [] efBehaviour = "fail" -> {FailedResponse}
    [] efBehaviour = "bare" -> {TextResponse(BarePayload)}
    [] efBehaviour = "alternate" ->
         {IF i % 2 = 1 THEN TextResponse(GoodPayload(pmid)) ELSE FailedResponse}

\* articles.slice(0, 10).map(a => a.pmid) of searchFull
TopPmidsMutAll(articles) == [i \in 1..Len(articles) |-> articles[i].pmid]
TopPmids(articles) ==
  [i \in 1..(IF Len(articles) < EnrichCap THEN Len(articles) ELSE EnrichCap) |-> articles[i].pmid]

\* the merge loop of searchFull
MergeAbstracts(articles, abstracts) ==
  [i \in 1..Len(articles) |->
     LET js == {j \in 1..Len(abstracts) : articles[i].pmid = abstracts[j].pmid}
     IN IF js = {} THEN articles[i]
        ELSE [articles[i] EXCEPT !.abstract = abstracts[MinOf(js)].abstract]]

\* search(query, maxResults = 20); 0 stands for an argument left out
CallSearch(maxResults) ==
  /\ pmPc = "idle"
  /\ pmCall' = "search"
  /\ pmRetmax' = (IF maxResults = 0 THEN DefaultSearchMax ELSE maxResults)
  /\ pmPc' = "esearch"
  /\ UNCHANGED <<idList, esKinds, pmArticles, pmPmids, pmAbstracts, pmI, pmResult,
                 fetchLog, efBehaviour, efResp, pmError>>

\* searchFull(query, maxResults): maxResults = maxResults || 15, then search
CallSearchFull(maxResults) ==
  /\ pmPc = "idle"
  /\ pmCall' = "searchFull"
  /\ pmRetmax' = (IF maxResults = 0 THEN DefaultFullMax ELSE maxResults)
  /\ pmPc' = "esearch"
  /\ UNCHANGED <<idList, esKinds, pmArticles, pmPmids, pmAbstracts, pmI, pmResult,
                 fetchLog, efBehaviour, efResp, pmError>>

\* getAbstract(pmid), up to its request
CallGetAbstract(pmid) ==
  /\ pmPc = "idle"
  /\ pmCall' = "getAbstract"
  /\ pmPmids' = <<pmid>>
  /\ pmI' = 1
  /\ fetchLog' = <<pmid>>
  /\ pmPc' = "efetch"
  /\ UNCHANGED <<pmRetmax, idList, esKinds, pmArticles, pmAbstracts, pmResult,
                 efBehaviour, efResp, pmError>>

\* getAbstracts(pmids), up to its first request; with no pmid it awaits nothing
CallGetAbstracts(pmids) ==
  /\ pmPc = "idle"
  /\ pmCall' = "getAbstracts"
  /\ pmPmids' = pmids
  /\ IF pmids = <<>>
       THEN /\ pmResult' = <<>>
            /\ pmPc' = "returned"
            /\ UNCHANGED <<pmI, fetchLog>>
       ELSE /\ pmI' = 1
            /\ fetchLog' = <<pmids[1]>>
            /\ pmPc' = "efetch"
            /\ UNCHANGED pmResult
  /\ UNCHANGED <<pmRetmax, idList, esKinds, pmArticles, pmAbstracts, efBehaviour, efResp,
                 pmError>>

\* what follows the articles of search: search returns them; searchFull goes on
\* to getAbstracts, whose loop awaits nothing when there is no pmid
AfterSearch(articles) ==
  /\ pmArticles' = articles
  /\ IF pmCall = "search"
       THEN /\ pmResult' = articles
            /\ pmPc' = "returned"
            /\ UNCHANGED <<pmPmids, pmI, fetchLog>>
     ELSE IF TopPmids(articles) = <<>>
       THEN /\ pmResult' = MergeAbstracts(articles, <<>>)
            /\ pmPc' = "returned"
            /\ pmPmids' = <<>>
            /\ UNCHANGED <<pmI, fetchLog>>
     ELSE /\ pmPmids' = TopPmids(articles)
          /\ pmI' = 1
          /\ fetchLog' = Append(fetchLog, TopPmids(articles)[1])
          /\ pmPc' = "efetch"
          /\ UNCHANGED pmResult

\* the identifier search fails (or its body has no esearchresult): search logs and rethrows
EsearchFails ==
  /\ pmPc = "esearch"
  /\ pmPc' = "threw"
  /\ pmError' = "esearch request failed"
  /\ UNCHANGED <<pmCall, pmRetmax, idList, esKinds, pmArticles, pmPmids, pmAbstracts,
                 pmI, pmResult, fetchLog, efBehaviour, efResp>>
  /\ UNCHANGED notPmVars

\* the identifier search answers with at most retmax identifiers
EsearchReturns(lists) ==
  /\ pmPc = "esearch"
  /\ \E list \in lists :
       /\ Len(list) <= pmRetmax
       /\ idList' = list
       /\ IF Len(list) = 0
            THEN AfterSearch(<<>>)
            ELSE /\ pmPc' = "esummary"
                 /\ UNCHANGED <<pmArticles, pmPmids, pmI, pmResult, fetchLog>>
  /\ UNCHANGED <<pmCall, pmRetmax, esKinds, pmAbstracts, efBehaviour, efResp, pmError>>
  /\ UNCHANGED notPmVars

\* the summary request fails (or its body has no result): search logs and rethrows
EsummaryFails ==
  /\ pmPc = "esummary"
  /\ pmPc' = "threw"
  /\ pmError' = "esummary request failed"
  /\ UNCHANGED <<pmCall, pmRetmax, idList, esKinds, pmArticles, pmPmids, pmAbstracts,
                 pmI, pmResult, fetchLog, efBehaviour, efResp>>
  /\ UNCHANGED notPmVars

\* the summary request answers
EsummaryReturns(mode) ==
  /\ pmPc = "esummary"
  /\ \E kinds \in SummaryChoices(idList, mode) :
       /\ esKinds' = kinds
       /\ AfterSearch(SearchLoop(idList, kinds, 1, <<>>))
  /\ UNCHANGED <<pmCall, pmRetmax, idList, pmAbstracts, efBehaviour, efResp, pmError>>
  /\ UNCHANGED notPmVars

\* the efetch request of getAbstract settles: getAbstract returns its record
EfetchResponds ==
  /\ pmPc = "efetch"
  /\ \E resp \in EfetchChoices(pmPmids[pmI], pmI) :
       /\ efResp' = <<resp>>
       /\ IF pmCall = "getAbstract"
            THEN /\ pmResult' = <<GetAbstractRecord(pmPmids[pmI], resp)>>
                 /\ pmPc' = "returned"
                 /\ UNCHANGED pmAbstracts
            ELSE /\ pmAbstracts' = Append(pmAbstracts, GetAbstractRecord(pmPmids[pmI], resp))
                 /\ pmPc' = "sleep"
                 /\ UNCHANGED pmResult
  /\ UNCHANGED <<pmCall, pmRetmax, idList, esKinds, pmArticles, pmPmids, pmI,
                 fetchLog, efBehaviour, pmError>>
  /\ UNCHANGED notPmVars

\* the pause of getAbstracts ends: next fetch, or return to searchFull, which merges
SleepDone ==
  /\ pmPc = "sleep"
  /\ IF pmI < Len(pmPmids)
       THEN /\ pmI' = pmI + 1
            /\ fetchLog' = Append(fetchLog, pmPmids[pmI + 1])
            /\ pmPc' = "efetch"
            /\ UNCHANGED pmResult
       ELSE /\ pmResult' = (IF pmCall = "getAbstracts" THEN pmAbstracts
                            ELSE MergeAbstracts(pmArticles, pmAbstracts))
            /\ pmPc' = "returned"
            /\ UNCHANGED <<pmI, fetchLog>>
  /\ UNCHANGED <<pmCall, pmRetmax, idList, esKinds, pmArticles, pmPmids, pmAbstracts,
                 efBehaviour, efResp, pmError>>
  /\ UNCHANGED notPmVars

\* --- PubMedClient.search on its own
SearchInit == PmIdle /\ clock = 0 /\ ParseIdle /\ NegIdle /\ IoIdle /\ AgIdle /\ PlIdle /\ RestIdle
SearchCalled == \E m \in {0, 2, MaxSearchIds} : CallSearch(m) /\ UNCHANGED notPmVars
SearchNext ==
  \/ SearchCalled
  \/ EsearchFails
  \/ EsearchReturns(SmallIdLists)
  \/ EsummaryFails
  \/ EsummaryReturns("any")
SpecSearch == SearchInit /\ [][SearchNext]_vars

\* --- PubMedClient.getAbstract on its own
AbstractInit == PmIdleWith({"any"}) /\ clock = 0 /\ ParseIdle /\ NegIdle /\ IoIdle /\ AgIdle /\ PlIdle /\ RestIdle
GetAbstractCalled == \E i \in 1..2 : CallGetAbstract(IdOf(i)) /\ UNCHANGED notPmVars
AbstractNext == GetAbstractCalled \/ EfetchResponds
SpecAbstract == AbstractInit /\ [][AbstractNext]_vars

\* --- PubMedClient.getAbstracts on its own: any list of identifiers, repeated
\* ones included, and any answer to each request
RECURSIVE SeqsUpTo(_, _)
SeqsUpTo(S, n) ==
  IF n = 0 THEN {<<>>}
  ELSE LET shorter == SeqsUpTo(S, n - 1)
       IN shorter \cup {Append(q, x) : q \in {r \in shorter : Len(r) = n - 1}, x \in S}
BatchLists == SeqsUpTo({IdOf(1), IdOf(2)}, MaxSearchIds)
BatchInit == PmIdle /\ clock = 0 /\ ParseIdle /\ NegIdle /\ IoIdle /\ AgIdle /\ PlIdle /\ RestIdle
GetAbstractsCalled == \E pmids \in BatchLists : CallGetAbstracts(pmids) /\ UNCHANGED notPmVars
BatchNext == GetAbstractsCalled \/ EfetchResponds \/ SleepDone
SpecBatch == BatchInit /\ [][BatchNext]_vars

\* --- PubMedClient.searchFull on its own
FullInit ==
  /\ PmIdleWith({"ok", "fail", "bare", "alternate"})
  /\ clock = 0 /\ ParseIdle /\ NegIdle /\ IoIdle /\ AgIdle /\ PlIdle /\ RestIdle
SearchFullCalled == \E m \in {0, 5, 20} : CallSearchFull(m) /\ UNCHANGED notPmVars
FullNext ==
  \/ SearchFullCalled
  \/ EsearchFails
  \/ EsearchReturns(LongIdLists)
  \/ EsummaryFails
  \/ EsummaryReturns("edge")
  \/ EfetchResponds
  \/ SleepDone
SpecSearchFull == FullInit /\ [][FullNext]_vars

\* ------------------------------------------------------ VeniceClient.generate
\* answers of the generative endpoint: a body with the text, a body whose message
\* has no content, a body without choices, a non-success status, no answer at all
VeniceAnswerKinds == {"ok", "noContent", "noChoices", "httpError", "networkError"}

\* how generate ends for an answer: it returns response.data.choices[0].message.content
\* (<<>> stands for undefined) or logs and rethrows
GenerateOutcome(kind, txt) ==
  CASE kind = "ok" -> [threw |-> FALSE, value |-> <<txt>>, error |-> ""]
    [] kind = "noContent" -> [threw |-> FALSE, value |-> <<>>, error |-> ""]
    [] kind = "noChoices" ->
         [threw |-> TRUE, value |-> <<>>, error |-> "Cannot read properties of undefined"]
    [] kind = "httpError" ->
         [threw |-> TRUE, value |-> <<>>, error |-> "Request failed with status code 500"]
    [] kind = "networkError" -> [threw |-> TRUE, value |-> <<>>, error |-> "Network Error"]

\* ------------------------------------------------ JSON.stringify / JSON.parse
\* JavaScript values: undefined, null, booleans, numbers (naturals), strings
\* (sequences of characters), arrays, and objects (members in insertion order)
JsUndefined == [t |-> "undefined", v |-> <<>>]
JsNull == [t |-> "null", v |-> <<>>]
JsBool(b) == [t |-> "boolean", v |-> <<b>>]
JsNum(n) == [t |-> "number", v |-> <<n>>]
JsStr(chars) == [t |-> "string", v |-> chars]
JsArr(items) == [t |-> "array", v |-> items]
JsObj(members) == [t |-> "object", v |-> members]
Member(key, value) == [key |-> key, value |-> value]

DigitChars == <<"0", "1", "2", "3", "4", "5", "6", "7", "8", "9">>
RECURSIVE DecimalChars(_)
DecimalChars(n) ==
  IF n < 10 THEN <<DigitChars[n + 1]>> ELSE Append(DecimalChars(n \div 10), DigitChars[(n % 10) + 1])

\* a string literal: quotes, with the quote, the backslash and the control
\* characters escaped
EscapeChar(c) ==
  CASE c = "\"" -> <<"\\", "\"">>
    [] c = "\\" -> <<"\\", "\\">>
    [] c = "\n" -> <<"\\", "n">>
    [] c = "\t" -> <<"\\", "t">>
    [] OTHER -> <<c>>
RECURSIVE EscapeAll(_, _, _)
EscapeAll(chars, lo, hi) ==
  IF lo > hi THEN <<>>
  ELSE IF lo = hi THEN EscapeChar(chars[lo])
  ELSE EscapeAll(chars, lo, (lo + hi) \div 2) \o EscapeAll(chars, ((lo + hi) \div 2) + 1, hi)
Quote(chars) == <<"\"">> \o EscapeAll(chars, 1, Len(chars)) \o <<"\"">>

\* JSON.stringify(value, null, 2): a line break and two spaces per level
Indent(level) == <<"\n">> \o Rep(" ", 2 * level)

\* the members JSON.stringify keeps: those whose value is not undefined
KeptMembers(members) == SelectSeq(members, LAMBDA mb : mb.value.t # "undefined")

RECURSIVE Stringify(_, _)
RECURSIVE StringifyItems(_, _, _)
RECURSIVE StringifyMembers(_, _, _)
Stringify(value, level) ==
  CASE value.t \in {"null", "undefined"} -> <<"null">>
    [] value.t = "boolean" -> <<IF value.v[1] THEN "true" ELSE "false">>
    [] value.t = "number" -> DecimalChars(value.v[1])
    [] value.t = "string" -> Quote(value.v)
    [] value.t = "array" ->
         IF value.v = <<>> THEN <<"[", "]">>
         ELSE <<"[">> \o StringifyItems(value.v, 1, level + 1) \o Indent(level) \o <<"]">>
    [] value.t = "object" ->
         IF KeptMembers(value.v) = <<>> THEN <<"{", "}">>
         ELSE <<"{">> \o StringifyMembers(KeptMembers(value.v), 1, level + 1)
                \o Indent(level) \o <<"}">>
StringifyItems(items, i, level) ==
  IF i > Len(items) THEN <<>>
  ELSE Indent(level) \o Stringify(items[i], level)
       \o (IF i < Len(items) THEN <<",">> ELSE <<>>)
       \o StringifyItems(items, i + 1, level)
StringifyMembers(members, i, level) ==
  IF i > Len(members) THEN <<>>
  ELSE Indent(level) \o Quote(members[i].key) \o <<":", " ">>
       \o Stringify(members[i].value, level)
       \o (IF i < Len(members) THEN <<",">> ELSE <<>>)
       \o StringifyMembers(members, i + 1, level)

\* JSON.parse: each parser reads the text t from position p and yields the
\* value read and the position after it
RECURSIVE SkipSpace(_, _)
SkipSpace(t, p) ==
  IF p <= Len(t) /\ t[p] \in {" ", "\n", "\t"} THEN SkipSpace(t, p + 1) ELSE p

UnescapeCharMutKeep(c) == c
UnescapeChar(c) ==
  CASE c = "n" -> "\n"
    [] c = "t" -> "\t"
    [] OTHER -> c

\* in a string literal whose first character is at p: the character at i is
\* escaped when an odd number of backslashes stands right before it
Escaped(t, p, i) ==
  IF i = p \/ t[i - 1] # "\\" THEN FALSE
  ELSE LET others == {j \in p..(i - 1) : t[j] # "\\"}
       IN (IF others = {} THEN i - p ELSE i - 1 - MaxOf(others)) % 2 = 1

\* the position of the closing quote, looked for from q on
RECURSIVE ClosingQuote(_, _, _)
ClosingQuote(t, p, q) ==
  LET found == {i \in q..MinOf({q + 15, Len(t)}) : t[i] = "\"" /\ ~Escaped(t, p, i)}
  IN IF found # {} THEN MinOf(found) ELSE ClosingQuote(t, p, q + 16)

\* the characters of a string literal whose opening quote is before p: a
\* backslash drops out and the character after it is unescaped
ParseChars(t, p, acc) ==
  LET q == ClosingQuote(t, p, p)
      Lead(i) == t[i] = "\\" /\ ~Escaped(t, p, i)
      kept == SelectSeq([k \in 1..(q - p) |-> p + k - 1], LAMBDA i : ~Lead(i))
  IN [v |-> acc \o [k \in 1..Len(kept) |->
                       IF Escaped(t, p, kept[k]) THEN UnescapeChar(t[kept[k]])
                       ELSE t[kept[k]]],
      p |-> q + 1]

DigitValue(c) == CHOOSE d \in 0..9 : DigitChars[d + 1] = c
RECURSIVE ParseDigits(_, _, _)
ParseDigits(t, p, acc) ==
  IF p <= Len(t) /\ t[p] \in Digits
    THEN ParseDigits(t, p + 1, 10 * acc + DigitValue(t[p]))
    ELSE [v |-> acc, p |-> p]

RECURSIVE ParseValue(_, _)
RECURSIVE ParseItems(_, _, _)
RECURSIVE ParseMembers(_, _, _)
ParseValue(t, p0) ==
  LET p == SkipSpace(t, p0)
  IN CASE t[p] = "null" -> [v |-> JsNull, p |-> p + 1]
       [] t[p] = "true" -> [v |-> JsBool(TRUE), p |-> p + 1]
       [] t[p] = "false" -> [v |-> JsBool(FALSE), p |-> p + 1]
       [] t[p] = "\"" -> LET s == ParseChars(t, p + 1, <<>>) IN [v |-> JsStr(s.v), p |-> s.p]
       [] t[p] = "[" ->
            IF t[SkipSpace(t, p + 1)] = "]"
              THEN [v |-> JsArr(<<>>), p |-> SkipSpace(t, p + 1) + 1]
              ELSE ParseItems(t, p + 1, <<>>)
       [] t[p] = "{" ->
            IF t[SkipSpace(t, p + 1)] = "}"
              THEN [v |-> JsObj(<<>>), p |-> SkipSpace(t, p + 1) + 1]
              ELSE ParseMembers(t, p + 1, <<>>)
       [] OTHER -> LET n == ParseDigits(t, p, 0) IN [v |-> JsNum(n.v), p |-> n.p]
ParseItems(t, p, acc) ==
  LET item == ParseValue(t, p)
      q == SkipSpace(t, item.p)
  IN IF t[q] = "," THEN ParseItems(t, q + 1, Append(acc, item.v))
     ELSE [v |-> JsArr(Append(acc, item.v)), p |-> q + 1]
ParseMembers(t, p, acc) ==
  LET k == ParseChars(t, SkipSpace(t, p) + 1, <<>>)
      item == ParseValue(t, SkipSpace(t, k.p) + 1)
      q == SkipSpace(t, item.p)
      members == Append(acc, Member(k.v, item.v))
  IN IF t[q] = "," THEN ParseMembers(t, q + 1, members)
     ELSE [v |-> JsObj(members), p |-> q + 1]
JsonParse(t) == ParseValue(t, 1).v

\* ------------------------------------------------- VeniceClient.generate
\* the options generate is called with: <<>> is the omitted argument, "" and 0
\* are absent (or falsy) members; temperatures are in tenths
GenerateOptions ==
  {<<>>} \cup [model : {"", "m2"}, maxTokens : {0, 2000}, temperature : {0, 5}]

\* the request body: options.model || this.defaultModel, options.maxTokens || 4000,
\* options.temperature || 0.7
RequestBody(prompt, options) ==
  LET o == IF options = <<>> THEN [model |-> "", maxTokens |-> 0, temperature |-> 0]
           ELSE options
  IN [model |-> IF o.model # "" THEN o.model ELSE "venice/llama-3.3-70b",
      messages |-> <<[role |-> "user", content |-> prompt]>>,
      max_tokens |-> IF o.maxTokens # 0 THEN o.maxTokens ELSE DefaultMaxTokens,
      temperature |-> IF o.temperature # 0 THEN o.temperature ELSE DefaultTemperature]

\* what the upstream answers: status 0 is no answer at all (connection failed);
\* the body has the content text, or a message without content, or choices[0]
\* without message, or an empty choices list, or no choices member
UpstreamStatuses == {0, 200, 204, 404, 500}
BodyShapes == {"content", "noContent", "noMessage", "emptyChoices", "noChoices"}
UpstreamAnswers == [status : UpstreamStatuses, body : BodyShapes, text : {<<>>, <<"t">>}]

\* axios resolves for a 2xx status and rejects otherwise
SuccessStatus(status) == status >= 200 /\ status < 300

\* how the answer fares in the try block of generate
AnswerKindOfMutAnyStatus(resp) ==
  IF resp.status = 0 THEN "networkError"
  ELSE IF resp.body = "content" THEN "ok"
  ELSE IF resp.body = "noContent" THEN "noContent"
  ELSE "noChoices"
AnswerKindOf(resp) ==
  IF resp.status = 0 THEN "networkError"
  ELSE IF ~SuccessStatus(resp.status) THEN "httpError"
  ELSE IF resp.body = "content" THEN "ok"
  ELSE IF resp.body = "noContent" THEN "noContent"
  ELSE "noChoices"

\* how generate ends for an upstream answer: the outcome, the class of the error
\* rethrown and the status it carries (error.response.status), <<>> when it has none
Generate(resp) ==
  LET kind == AnswerKindOf(resp)
      o == GenerateOutcome(kind, resp.text)
  IN [threw |-> o.threw, value |-> o.value,
      error |-> IF kind = "httpError"
                  THEN "Request failed with status code " \o ToString(resp.status)
                  ELSE o.error,
      class |-> CASE kind \in {"httpError", "networkError"} -> "AxiosError"
                  [] kind = "noChoices" -> "TypeError"
                  [] OTHER -> "",
      status |-> IF kind = "httpError" THEN <<resp.status>> ELSE <<>>]

\* generate(prompt, options) up to its request
GenerateCalled ==
  /\ genPc = "idle"
  /\ \E options \in GenerateOptions : genRequest' = <<RequestBody("prompt", options)>>
  /\ genPc' = "request"
  /\ UNCHANGED <<genResp, genResult>>
  /\ UNCHANGED notGenVars

\* the request settles: generate returns the content member or rethrows
GenerateSettles ==
  /\ genPc = "request"
  /\ \E resp \in UpstreamAnswers :
       /\ genResp' = <<resp>>
       /\ genResult' = <<Generate(resp)>>
       /\ genPc' = (IF Generate(resp).threw THEN "threw" ELSE "returned")
  /\ UNCHANGED genRequest
  /\ UNCHANGED notGenVars

GenerateInit ==
  /\ GenIdle /\ CkIdle /\ CoIdle /\ CliIdle /\ MoreIdle
  /\ clock = 0 /\ ParseIdle /\ NegIdle /\ PmIdle /\ IoIdle /\ AgIdle /\ PlIdle
GenerateNext == GenerateCalled \/ GenerateSettles
SpecGenerate == GenerateInit /\ [][GenerateNext]_vars

\* ------------------------------------------------- MAResearchAgent.research
TaskTypes == {"summary", "abstract", "kol-briefing", "competitive", "medical-info",
              "paper", "slides", "other"}

\* options: 0 stands for a property left out
AgentOptions ==
  {[clinicalOnly |-> FALSE, recentYears |-> 0, maxResults |-> 0],
   [clinicalOnly |-> FALSE, recentYears |-> 0, maxResults |-> 2],
   [clinicalOnly |-> TRUE, recentYears |-> 0, maxResults |-> 2],
   [clinicalOnly |-> FALSE, recentYears |-> 3, maxResults |-> 0],
   [clinicalOnly |-> TRUE, recentYears |-> 3, maxResults |-> 0],
   [clinicalOnly |-> FALSE, recentYears |-> 3, maxResults |-> 2],
   [clinicalOnly |-> TRUE, recentYears |-> 3, maxResults |-> 2]}

\* step 1: the PubMedClient method chosen
SearchModeOfMutRecentFirst(opts) ==
  IF opts.recentYears # 0 THEN "searchRecent"
  ELSE IF opts.clinicalOnly THEN "searchClinicalTrials"
  ELSE "searchFull"
SearchModeOf(opts) ==
  IF opts.clinicalOnly THEN "searchClinicalTrials"
  ELSE IF opts.recentYears # 0 THEN "searchRecent"
  ELSE "searchFull"

\* the maxResults argument searchFull is called with
SearchMaxOf(opts) ==
  IF SearchModeOf(opts) = "searchFull"
    THEN (IF opts.maxResults # 0 THEN opts.maxResults ELSE DefaultFullMax)
    ELSE FilteredMax

\* the clause the chosen method adds to the query before it calls searchFull:
\* publication types for searchClinicalTrials (options.phase is left out), the
\* years from yearsBack ago to the current year for searchRecent
SearchFilterOf(opts) ==
  CASE SearchModeOf(opts) = "searchClinicalTrials" ->
         [kind |-> "publication type", yearsBack |-> 0]
    [] SearchModeOf(opts) = "searchRecent" ->
         [kind |-> "publication date", yearsBack |-> opts.recentYears]
    [] OTHER -> [kind |-> "none", yearsBack |-> 0]

\* step 2: the VeniceClient method chosen
VeniceMethodOf(task) ==
  CASE task = "summary" -> "summarizeFindings"
    [] task = "abstract" -> "generateAbstract"
    [] task = "kol-briefing" -> "generateKOLBriefing"
    [] task = "competitive" -> "generateCompetitiveAnalysis"
    [] task = "medical-info" -> "generateMedicalInfoResponse"
    [] OTHER -> "summarizeFindings"

\* step 3: the OutputGenerator method chosen
OutputMethodOfMutReport(task) == "generateReport"
OutputMethodOf(task) ==
  CASE task = "paper" -> "generatePaper"
    [] task = "slides" -> "generateSlides"
    [] OTHER -> "generateReport"

\* if (articles.length === 0) throw
NoArticlesMutNever(articles) == FALSE
NoArticles(articles) == Len(articles) = 0

\* the catch block of research: the promise resolves to a failure result
CaughtMutRethrow(message) == [outcome |-> "rejected", value |-> message]
Caught(message) == [outcome |-> "resolved", value |-> [success |-> FALSE, error |-> message]]

SummaryTexts == {<<"s">>}

\* research(query, taskType, options), up to the request of the identifier search
AgentStart ==
  /\ agPc = "idle"
  /\ \E task \in TaskTypes, opts \in AgentOptions, t \in ClockReadings :
       /\ agTask' = task
       /\ agOpts' = opts
       /\ agSearches' = Append(agSearches, [method |-> SearchModeOf(opts),
                                            filter |-> SearchFilterOf(opts),
                                            maxResults |-> SearchMaxOf(opts)])
       /\ clock' = t
       /\ agStart' = t
       /\ CallSearchFull(SearchMaxOf(opts))
  /\ agPc' = "search"
  /\ UNCHANGED <<agArticles, agSummary, agSettled, ioVars, notAgVars>>

\* the search threw: caught at the top level
AgentSearchThrew ==
  /\ agPc = "search"
  /\ pmPc = "threw"
  /\ agSettled' = <<Caught(pmError)>>
  /\ agPc' = "done"
  /\ UNCHANGED <<agTask, agOpts, agSearches, agStart, agArticles, agSummary, ioVars, clock,
                 notAgVars, pmVars>>

\* the search returned: no article is an error, else step 2 calls the Generative Client
AgentSearchReturned ==
  /\ agPc = "search"
  /\ pmPc = "returned"
  /\ agArticles' = pmResult
  /\ IF NoArticles(pmResult)
       THEN /\ agSettled' = <<Caught("No articles found for query")>>
            /\ agPc' = "done"
            /\ UNCHANGED ioVars
       ELSE /\ veniceCalls' = Append(veniceCalls, VeniceMethodOf(agTask))
            /\ vPc' = "request"
            /\ agPc' = "synthesize"
            /\ UNCHANGED <<agSettled, veniceAnswers, outputCalls, outputAnswers>>
  /\ UNCHANGED <<agTask, agOpts, agSearches, agStart, agSummary, clock, notAgVars, pmVars>>

\* the generative call settled: an error is caught, else step 3 calls the Document Generator
AgentVeniceResponds ==
  /\ agPc = "synthesize"
  /\ vPc = "request"
  /\ \E kind \in VeniceAnswerKinds, txt \in SummaryTexts :
       LET o == GenerateOutcome(kind, txt)
       IN /\ veniceAnswers' = Append(veniceAnswers, kind)
          /\ vPc' = "idle"
          /\ IF o.threw
               THEN /\ agSettled' = <<Caught(o.error)>>
                    /\ agPc' = "done"
                    /\ UNCHANGED <<agSummary, outputCalls>>
               ELSE /\ agSummary' = o.value
                    /\ outputCalls' = Append(outputCalls, OutputMethodOf(agTask))
                    /\ agPc' = "format"
                    /\ UNCHANGED agSettled
  /\ UNCHANGED <<agTask, agOpts, agSearches, agStart, agArticles, veniceCalls, outputAnswers, clock,
                 notAgVars, pmVars>>

\* the Document Generator call settled: an error is caught, else the result is returned
AgentOutputResponds ==
  /\ agPc = "format"
  /\ \E answer \in {"written", "failed"}, t \in ClockReadings :
       /\ outputAnswers' = Append(outputAnswers, answer)
       /\ IF answer = "failed"
            THEN /\ agSettled' = <<Caught("output failed")>>
                 /\ UNCHANGED clock
            ELSE /\ clock' = t
                 /\ agSettled' =
                      <<[outcome |-> "resolved",
                         value |-> [success |-> TRUE, query |-> "query", taskType |-> agTask,
                                    articles |-> agArticles, summary |-> agSummary,
                                    outputPath |-> "output path", duration |-> t - agStart]]>>
  /\ agPc' = "done"
  /\ UNCHANGED <<agTask, agOpts, agSearches, agStart, agArticles, agSummary, vPc, veniceCalls,
                 veniceAnswers, outputCalls, notAgVars, pmVars>>

AgentInit ==
  /\ PmIdleWith({"ok", "alternate"})
  /\ clock = 0 /\ ParseIdle /\ NegIdle /\ IoIdle /\ AgIdle /\ PlIdle /\ RestIdle
AgentNext ==
  \/ AgentStart
  \/ EsearchFails
  \/ EsearchReturns(SmallIdLists)
  \/ EsummaryFails
  \/ EsummaryReturns("edge")
  \/ EfetchResponds
  \/ SleepDone
  \/ AgentSearchThrew
  \/ AgentSearchReturned
  \/ AgentVeniceResponds
  \/ AgentOutputResponds
SpecAgent == AgentInit /\ [][AgentNext]_vars

\* ------------------------------------- MultiAgentResearchSystem (pipeline)
\* the stages of research, by the phase it announces, and the checkpoint each
\* one writes
StageOrder == <<"Created", "Ideation", "Planning", "Execution", "Writing", "Done">>
CheckpointNames == <<"initial", "ideation", "planning", "execution", "papers">>

\* the options research is called with: <<>> is undefined, maxResults 0 is absent
PipelineOptions == {<<>>, [maxResults |-> 0], [maxResults |-> 1]}

\* options = options || {}
OptionsOrEmpty(options) == IF options = <<>> THEN [maxResults |-> 0] ELSE options

\* options.maxResults || 20
IdeationMax(options) == IF options.maxResults # 0 THEN options.maxResults ELSE IdeationDefaultMax

\* the identifier lists the search endpoint answers a pipeline run with
PipelineIdLists == {list \in SmallIdLists : Len(list) <= MaxPipeIds}

\* the texts the generative endpoint answers the pipeline's prompts with
IdeationTexts ==
  {LineRaw("numDot") \o <<"\n">> \o LineRaw("qualA") \o <<"\n">> \o LineRaw("numParHyp"),
   LineRaw("qualB")}
MethodologyTexts == {<<"m">>}
AnalysisTexts == {WordRaw("insuffMixed") \o WordRaw("spEvidence"), WordRaw("sufficient")}
PaperTexts == {<<"p">>}

\* what reading a member of undefined raises
TypeErrorMessage(member) == "Cannot read properties of undefined: " \o member

\* writeState(filename, data): nothing without a current project, else the file is written
WriteStateMutSkip(disk, project, filename, data) == disk
WriteState(disk, project, filename, data) ==
  IF project = <<>> THEN disk
  ELSE Append(disk, [dir |-> project[1].dir, name |-> filename, data |-> data])

\* history entries
StageEntry(name) == [ev |-> "stage", name |-> name]
CheckpointEntry(name) == [ev |-> "checkpoint", name |-> name]
CallEntry(stage) == [ev |-> "call", name |-> stage]

\* the end of a stage: its checkpoint is written, then the next phase is announced
FinishStage(log, checkpoint, next) ==
  Append(Append(log, CheckpointEntry(checkpoint)), StageEntry(next))

\* an exception leaves research: the promise is rejected with it
RejectedMutWrapped(error) == [outcome |-> "rejected", value |-> "pipeline failed"]
Rejected(error) == [outcome |-> "rejected", value |-> error]

\* hypotheses.filter(h => h.passedReview)
PassedReviewMutFirst(hs) == IF Len(hs) > 1 THEN <<hs[1]>> ELSE hs
PassedReview(hs) == SelectSeq(hs, LAMBDA h : h.passedReview)

\* the value research resolves with
PipelineReturn(project, valid, ps, rs, pp) ==
  [outcome |-> "resolved",
   value |-> [project |-> project, hypotheses |-> valid, plans |-> ps, results |-> rs,
              papers |-> pp]]

\* research up to the await of startProject: the project is created and the
\* initial checkpoint written
PipelineStartProject ==
  /\ plPc = "idle"
  /\ \E options \in PipelineOptions, id \in ClockReadings :
       \E started \in ReadingsAfter(id) :
         LET project == [id |-> id, query |-> "q", dir |-> id]
         IN /\ plOpts' = OptionsOrEmpty(options)
            /\ currentProject' = <<project>>
            /\ files' = WriteState(files, <<project>>, "initial",
                                   [query |-> "q", started |-> started])
            /\ plLog' = Append(Append(plLog, StageEntry("Created")),
                               CheckpointEntry("initial"))
            /\ clock' = started
  /\ plPc' = "created"
  /\ UNCHANGED <<plI, hypotheses, validHypotheses, plans, results, papers, plSettled>>
  /\ UNCHANGED <<pmVars, ioVars, notPlVars>>

\* startProject has returned: IdeationAgent.generate runs up to its search request
PipelineIdeationBegins ==
  /\ plPc = "created"
  /\ CallSearchFull(IdeationMax(plOpts))
  /\ plLog' = Append(Append(plLog, StageEntry("Ideation")), CallEntry("Ideation"))
  /\ plPc' = "ideationSearch"
  /\ UNCHANGED <<plI, plOpts, currentProject, files, hypotheses, validHypotheses, plans,
                 results, papers, plSettled>>
  /\ UNCHANGED <<clock, ioVars, notPlVars>>

\* searchFull threw: nothing catches it, research is rejected
PipelineSearchThrew ==
  /\ plPc = "ideationSearch"
  /\ pmPc = "threw"
  /\ plSettled' = <<Rejected(pmError)>>
  /\ plPc' = "rejected"
  /\ UNCHANGED <<plI, plOpts, currentProject, files, plLog, hypotheses, validHypotheses,
                 plans, results, papers>>
  /\ UNCHANGED <<clock, pmVars, ioVars, notPlVars>>

\* searchFull returned: the hypotheses prompt is sent
PipelineSearchReturned ==
  /\ plPc = "ideationSearch"
  /\ pmPc = "returned"
  /\ vPc = "idle"
  /\ vPc' = "request"
  /\ veniceCalls' = Append(veniceCalls, "ideation.generate")
  /\ plLog' = Append(plLog, CallEntry("Ideation"))
  /\ plPc' = "ideationGenerate"
  /\ UNCHANGED <<plI, plOpts, currentProject, files, hypotheses, validHypotheses,
                 plans, results, papers, plSettled>>
  /\ UNCHANGED <<veniceAnswers, outputCalls, outputAnswers, clock, pmVars, notPlVars>>

\* the hypotheses prompt settled: an error or a missing text rejects research;
\* else the text is parsed, the ideation checkpoint written and planning begins
\* (with no valid hypothesis every later loop is empty and research resolves)
PipelineIdeationAnswered ==
  /\ plPc = "ideationGenerate"
  /\ vPc = "request"
  /\ \E kind \in VeniceAnswerKinds, txt \in IdeationTexts :
       LET o == GenerateOutcome(kind, txt)
           hs == ParseHypotheses(txt, pmResult)
           valid == PassedReview(hs)
           disk1 == WriteState(files, currentProject, "ideation", hs)
           log1 == FinishStage(plLog, "ideation", "Planning")
       IN /\ veniceAnswers' = Append(veniceAnswers, kind)
          /\ IF o.threw \/ o.value = <<>>
               THEN /\ plSettled' = <<Rejected(IF o.threw THEN o.error
                                                ELSE TypeErrorMessage("split"))>>
                    /\ plPc' = "rejected"
                    /\ vPc' = "idle"
                    /\ UNCHANGED <<plI, files, plLog, hypotheses, validHypotheses,
                                   veniceCalls>>
               ELSE /\ hypotheses' = hs
                    /\ validHypotheses' = valid
                    /\ IF valid = <<>>
                         THEN /\ files' = WriteState(WriteState(WriteState(disk1,
                                            currentProject, "planning", <<>>),
                                            currentProject, "execution", <<>>),
                                            currentProject, "papers", <<>>)
                              /\ plLog' = FinishStage(FinishStage(FinishStage(log1,
                                            "planning", "Execution"),
                                            "execution", "Writing"), "papers", "Done")
                              /\ plSettled' = <<PipelineReturn(currentProject[1], valid,
                                                               <<>>, <<>>, <<>>)>>
                              /\ plPc' = "done"
                              /\ vPc' = "idle"
                              /\ UNCHANGED <<plI, veniceCalls>>
                         ELSE /\ files' = disk1
                              /\ plLog' = Append(log1, CallEntry("Planning"))
                              /\ veniceCalls' = Append(veniceCalls, "planning.createPlan")
                              /\ vPc' = "request"
                              /\ plI' = 1
                              /\ plPc' = "planning"
                              /\ UNCHANGED plSettled
  /\ UNCHANGED <<plOpts, currentProject, plans, results, papers>>
  /\ UNCHANGED <<outputCalls, outputAnswers, clock, pmVars, notPlVars>>

\* a methodology prompt settled: an error rejects research; else the plan is
\* pushed and the next hypothesis planned, or the planning checkpoint written
\* and the first plan run
PipelinePlanAnswered ==
  /\ plPc = "planning"
  /\ vPc = "request"
  /\ \E kind \in VeniceAnswerKinds, txt \in MethodologyTexts :
       LET o == GenerateOutcome(kind, txt)
           ps == Append(plans, PlanRecord(validHypotheses[plI], o.value))
       IN /\ veniceAnswers' = Append(veniceAnswers, kind)
          /\ IF o.threw
               THEN /\ plSettled' = <<Rejected(o.error)>>
                    /\ plPc' = "rejected"
                    /\ vPc' = "idle"
                    /\ UNCHANGED <<plI, files, plLog, plans, veniceCalls>>
               ELSE /\ plans' = ps
                    /\ vPc' = "request"
                    /\ UNCHANGED plSettled
                    /\ IF plI < Len(validHypotheses)
                         THEN /\ plI' = plI + 1
                              /\ plLog' = Append(plLog, CallEntry("Planning"))
                              /\ veniceCalls' = Append(veniceCalls, "planning.createPlan")
                              /\ UNCHANGED <<plPc, files>>
                         ELSE /\ files' = WriteState(files, currentProject, "planning", ps)
                              /\ plLog' = Append(FinishStage(plLog, "planning", "Execution"),
                                                 CallEntry("Execution"))
                              /\ veniceCalls' = Append(veniceCalls, "execution.run")
                              /\ plI' = 1
                              /\ plPc' = "execution"
  /\ UNCHANGED <<plOpts, currentProject, hypotheses, validHypotheses, results, papers>>
  /\ UNCHANGED <<outputCalls, outputAnswers, clock, pmVars, notPlVars>>

\* an analysis prompt settled: an error or a missing text rejects research; else
\* the result is pushed and the next plan run, or the execution checkpoint
\* written and the first paper requested
PipelineRunAnswered ==
  /\ plPc = "execution"
  /\ vPc = "request"
  /\ \E kind \in VeniceAnswerKinds, txt \in AnalysisTexts, t \in ClockReadings :
       LET o == GenerateOutcome(kind, txt)
           rs == Append(results, ExecutionResult(plans[plI], txt, t))
       IN /\ veniceAnswers' = Append(veniceAnswers, kind)
          /\ IF o.threw \/ o.value = <<>>
               THEN /\ plSettled' = <<Rejected(IF o.threw THEN o.error
                                                ELSE TypeErrorMessage("toLowerCase"))>>
                    /\ plPc' = "rejected"
                    /\ vPc' = "idle"
                    /\ UNCHANGED <<plI, files, plLog, results, veniceCalls, clock>>
               ELSE /\ results' = rs
                    /\ clock' = t
                    /\ vPc' = "request"
                    /\ UNCHANGED plSettled
                    /\ IF plI < Len(plans)
                         THEN /\ plI' = plI + 1
                              /\ plLog' = Append(plLog, CallEntry("Execution"))
                              /\ veniceCalls' = Append(veniceCalls, "execution.run")
                              /\ UNCHANGED <<plPc, files>>
                         ELSE /\ files' = WriteState(files, currentProject, "execution", rs)
                              /\ plLog' = Append(FinishStage(plLog, "execution", "Writing"),
                                                 CallEntry("Writing"))
                              /\ veniceCalls' = Append(veniceCalls, "writing.write")
                              /\ plI' = 1
                              /\ plPc' = "writing"
  /\ UNCHANGED <<plOpts, currentProject, hypotheses, validHypotheses, plans, papers>>
  /\ UNCHANGED <<outputCalls, outputAnswers, pmVars, notPlVars>>

\* a paper prompt settled: an error rejects research; else the paper is pushed
\* and the next one requested, or the papers checkpoint written and research
\* resolves
PipelineWriteAnswered ==
  /\ plPc = "writing"
  /\ vPc = "request"
  /\ \E kind \in VeniceAnswerKinds, txt \in PaperTexts, t \in ClockReadings :
       LET o == GenerateOutcome(kind, txt)
           pp == Append(papers, PaperRecord(results[plI], o.value, t))
       IN /\ veniceAnswers' = Append(veniceAnswers, kind)
          /\ IF o.threw
               THEN /\ plSettled' = <<Rejected(o.error)>>
                    /\ plPc' = "rejected"
                    /\ vPc' = "idle"
                    /\ UNCHANGED <<plI, files, plLog, papers, veniceCalls, clock>>
               ELSE /\ papers' = pp
                    /\ clock' = t
                    /\ IF plI < Len(results)
                         THEN /\ plI' = plI + 1
                              /\ plLog' = Append(plLog, CallEntry("Writing"))
                              /\ veniceCalls' = Append(veniceCalls, "writing.write")
                              /\ vPc' = "request"
                              /\ UNCHANGED <<plPc, files, plSettled>>
                         ELSE /\ files' = WriteState(files, currentProject, "papers", pp)
                              /\ plLog' = FinishStage(plLog, "papers", "Done")
                              /\ plSettled' = <<PipelineReturn(currentProject[1],
                                                  validHypotheses, plans, results, pp)>>
                              /\ vPc' = "idle"
                              /\ plPc' = "done"
                              /\ UNCHANGED <<plI, veniceCalls>>
  /\ UNCHANGED <<plOpts, currentProject, hypotheses, validHypotheses, plans, results>>
  /\ UNCHANGED <<outputCalls, outputAnswers, pmVars, notPlVars>>

PipelineInit ==
  /\ PmIdleWith({"alternate", "fail"})
  /\ clock = 0 /\ ParseIdle /\ NegIdle /\ IoIdle /\ AgIdle /\ PlIdle /\ RestIdle
PipelineNext ==
  \/ PipelineStartProject
  \/ PipelineIdeationBegins
  \/ EsearchFails
  \/ EsearchReturns(PipelineIdLists)
  \/ EsummaryFails
  \/ EsummaryReturns("edge")
  \/ EfetchResponds
  \/ SleepDone
  \/ PipelineSearchThrew
  \/ PipelineSearchReturned
  \/ PipelineIdeationAnswered
  \/ PipelinePlanAnswered
  \/ PipelineRunAnswered
  \/ PipelineWriteAnswered
SpecPipeline == PipelineInit /\ [][PipelineNext]_vars

\* --------------------------------------------- writeState / readState files
\* new Date().toISOString() at clock reading t (milliseconds)
IsoString(t) ==
  <<"1970-01-01T00:00:00.">>
  \o (IF t < 10 THEN <<"0", "0">> ELSE IF t < 100 THEN <<"0">> ELSE <<>>)
  \o DecimalChars(t) \o <<"Z">>

\* the in-memory shapes of the pipeline as JavaScript values, members in the
\* order the code writes them
MapJs(F(_), items) == JsArr([i \in 1..Len(items) |-> F(items[i])])
GeneratedJs(g) == IF g = <<>> THEN JsUndefined ELSE JsStr(g[1])
WordJs(w) == JsStr(<<w>>)
ArticleJs(a) ==
  JsObj(<<Member(<<"pmid">>, JsStr(<<a.pmid>>)), Member(<<"title">>, JsStr(<<a.title>>)),
          Member(<<"abstract">>, JsStr(a.abstract))>>)
HypothesisJs(h) ==
  IF "evidence" \in DOMAIN h
    THEN JsObj(<<Member(<<"statement">>, JsStr(h.statement)),
                 Member(<<"importance">>, JsStr(h.importance)),
                 Member(<<"validation">>, JsStr(h.validation)),
                 Member(<<"evidence">>, MapJs(ArticleJs, h.evidence)),
                 Member(<<"passedReview">>, JsBool(h.passedReview))>>)
    ELSE JsObj(<<Member(<<"statement">>, JsStr(h.statement)),
                 Member(<<"passedReview">>, JsBool(h.passedReview))>>)
PlanJs(plan) ==
  JsObj(<<Member(<<"hypothesis">>, HypothesisJs(plan.hypothesis)),
          Member(<<"methodology">>, GeneratedJs(plan.methodology)),
          Member(<<"dataSources">>, MapJs(WordJs, plan.dataSources)),
          Member(<<"timeline">>, JsStr(<<plan.timeline>>))>>)
ResultJs(result) ==
  JsObj(<<Member(<<"plan">>, PlanJs(result.plan)),
          Member(<<"analysis">>, JsStr(result.analysis)),
          Member(<<"status">>, JsStr(<<result.status>>)),
          Member(<<"negativeResult">>, JsBool(result.negativeResult)),
          Member(<<"timestamp">>, JsStr(IsoString(result.timestamp)))>>)
PaperJs(paper) ==
  JsObj(<<Member(<<"paper">>, GeneratedJs(paper.paper)),
          Member(<<"hypothesis">>, JsStr(paper.hypothesis)),
          Member(<<"isNegativeResult">>, JsBool(paper.isNegativeResult)),
          Member(<<"timestamp">>, JsStr(IsoString(paper.timestamp)))>>)
InitialJs(data) ==
  JsObj(<<Member(<<"query">>, JsStr(<<data.query>>)),
          Member(<<"started">>, JsStr(IsoString(data.started)))>>)
CheckpointJs(name, data) ==
  CASE name = "initial" -> InitialJs(data)
    [] name = "ideation" -> MapJs(HypothesisJs, data)
    [] name = "planning" -> MapJs(PlanJs, data)
    [] name = "execution" -> MapJs(ResultJs, data)
    [] name = "papers" -> MapJs(PaperJs, data)

\* the bytes writeState puts in the file: JSON.stringify(data, null, 2)
FileContent(entry) == Stringify(CheckpointJs(entry.name, entry.data), 0)

\* readState(filename): null without a current project or without the file,
\* else JSON.parse of the file (the last write to that path)
ReadState(disk, project, filename) ==
  LET written == {i \in 1..Len(disk) :
                    project # <<>> /\ disk[i].dir = project[1].dir /\ disk[i].name = filename}
  IN IF written = {} THEN JsNull ELSE JsonParse(FileContent(disk[MaxOf(written)]))

\* stage outputs: hypotheses parsed from generated texts (numbered, fallback,
\* fallback cut at 200 characters, fallback with quote, backslash, line break
\* and tab), and the plans, results and papers made from them
CheckpointArticles ==
  MergeAbstracts(<<Article(Item(IdOf(1), "full")), Article(Item(IdOf(2), "noTitle"))>>,
                 <<GetAbstractRecord(IdOf(1), TextResponse(GoodPayload(IdOf(1))))>>)
CheckpointTexts ==
  IdeationTexts \cup
  {LineRaw("long") \o <<"\n">> \o LineRaw("long"),
   <<"s", "a", "y", " ", "\"", "a", "\\", "b", "\"", "\n", "\t", "c">>}
HypothesesSamples ==
  {ParseHypotheses(t, articles) : t \in CheckpointTexts, articles \in {<<>>, CheckpointArticles}}
PlansSamples ==
  {[i \in 1..Len(hs) |-> PlanRecord(hs[i], m)] :
     hs \in HypothesesSamples, m \in {<<>>} \cup {<<t>> : t \in MethodologyTexts}}
ResultsSamples ==
  {[i \in 1..Len(ps) |-> ExecutionResult(ps[i], a, t)] :
     ps \in PlansSamples, a \in AnalysisTexts, t \in 0..MaxClock}
PapersSamples ==
  {[i \in 1..Len(rs) |-> PaperRecord(rs[i], p, t)] :
     rs \in ResultsSamples, p \in {<<>>} \cup {<<t>> : t \in PaperTexts}, t \in {MaxClock}}
StageOutputs(name) ==
  CASE name = "initial" -> {[query |-> "q", started |-> t] : t \in 0..MaxClock}
    [] name = "ideation" -> HypothesesSamples
    [] name = "planning" -> PlansSamples
    [] name = "execution" -> ResultsSamples
    [] name = "papers" -> PapersSamples

\* writeState(name, data) with a stage output
CheckpointWritten ==
  /\ files = <<>>
  /\ ckRead = <<>>
  /\ \E name \in {CheckpointNames[i] : i \in 1..Len(CheckpointNames)} :
       \E data \in StageOutputs(name) :
         files' = WriteState(files, currentProject, name, data)
  /\ UNCHANGED <<ckRead, currentProject>>
  /\ UNCHANGED <<plPc, plI, plOpts, plLog, hypotheses, validHypotheses, plans, results,
                 papers, plSettled>>
  /\ UNCHANGED <<clock, pmVars, ioVars, notPlVars>>

\* readState(name)
CheckpointRead ==
  /\ ckRead = <<>>
  /\ \E name \in {CheckpointNames[i] : i \in 1..Len(CheckpointNames)} :
       ckRead' = <<[name |-> name, value |-> ReadState(files, currentProject, name)]>>
  /\ UNCHANGED <<plVars, notCkVars>>

CheckpointInit ==
  /\ currentProject \in {<<>>, <<[id |-> 0, query |-> "q", dir |-> 0]>>}
  /\ plPc = "idle" /\ plI = 0 /\ plOpts = <<>> /\ files = <<>>
  /\ plLog = <<>> /\ hypotheses = <<>> /\ validHypotheses = <<>> /\ plans = <<>>
  /\ results = <<>> /\ papers = <<>> /\ plSettled = <<>>
  /\ ckRead = <<>>
  /\ clock = 0 /\ ParseIdle /\ NegIdle /\ PmIdle /\ IoIdle /\ AgIdle /\ GenIdle
  /\ CoIdle /\ CliIdle /\ MoreIdle
CheckpointNext == CheckpointWritten \/ CheckpointRead
SpecCheckpoint == CheckpointInit /\ [][CheckpointNext]_vars

\* ------------------------------------------- MAResearchAgent (constructor)
\* the argument of the constructor: <<>> is undefined (no argument), "" an
\* absent member
ConstructorOptions ==
  {<<>>} \cup [veniceApiKey : {"", "k1", "k2"}, outputDir : {"", "d1", "d2"}]

\* the value of process.env.VENICE_INFERENCE_KEY; "" is unset
EnvKeys == {"", "e1", "e2", "e3"}

\* who constructs the agent, and with what argument
ConstructionSites ==
  {"test.js", "cli.js search", "cli.js abstract", "cli.js research", "agent.js interactive",
   "agent.js command", "library"}
SiteOptions(site) == IF site = "library" THEN ConstructorOptions ELSE {<<>>}

\* new MAResearchAgent(options): options.veniceApiKey is read before options is
\* defaulted, so an undefined argument raises a TypeError
ConstructAgentMutDefaulted(options, envKey) ==
  LET o == IF options = <<>> THEN [veniceApiKey |-> "", outputDir |-> ""] ELSE options
  IN [threw |-> FALSE, error |-> "",
      agent |-> <<[venice |-> [apiKey |-> IF o.veniceApiKey # "" THEN o.veniceApiKey ELSE envKey],
                   pubmed |-> [email |-> "research@example.com"],
                   output |-> [outputDir |-> IF o.outputDir # "" THEN o.outputDir ELSE "./output"],
                   options |-> o]>>]
ConstructAgent(options, envKey) ==
  IF options = <<>>
    THEN [threw |-> TRUE,
          error |-> "Cannot read properties of undefined (reading 'veniceApiKey')",
          agent |-> <<>>]
    ELSE [threw |-> FALSE, error |-> "",
          agent |-> <<[venice |-> [apiKey |-> IF options.veniceApiKey # ""
                                               THEN options.veniceApiKey ELSE envKey],
                       pubmed |-> [email |-> "research@example.com"],
                       output |-> [outputDir |-> IF options.outputDir # ""
                                                   THEN options.outputDir ELSE "./output"],
                       options |-> options]>>]

\* the constructor is called
AgentConstructed ==
  /\ coResult = <<>>
  /\ coResult' = <<ConstructAgent(coCall.options, coCall.envKey)>>
  /\ UNCHANGED <<coCall, cliVars, notCliVars>>

ConstructInit ==
  /\ coCall \in {[site |-> s, options |-> o, envKey |-> e] :
                   s \in ConstructionSites, o \in ConstructorOptions, e \in EnvKeys}
  /\ coCall.options \in SiteOptions(coCall.site)
  /\ coResult = <<>>
  /\ CliIdle
  /\ clock = 0 /\ ParseIdle /\ NegIdle /\ PmIdle /\ IoIdle /\ AgIdle /\ PlIdle
  /\ GenIdle /\ CkIdle /\ MoreIdle
ConstructNext == AgentConstructed
SpecConstruct == ConstructInit /\ [][ConstructNext]_vars

\* ------------------------------------------------------------------ cli.js
\* the words of a command line
ArgWords ==
  {"search", "abstract", "research", "paper", "competitive", "kol", "q", "--clinical",
   "--recent", "--max", "3"}
CommandLines == UNION {[1..n -> ArgWords] : n \in 0..MaxArgs}

IsFlag(word) == word \in {"--clinical", "--recent", "--max"}
Contains(args, word) == \E i \in 1..Len(args) : args[i] = word
IndexOf(args, word) == MinOf({i \in 1..Len(args) : args[i] = word})

\* parseInt(word): <<>> is NaN
ParseInt(word) == IF word = "3" THEN <<3>> ELSE <<>>

\* args.slice(1).join(" ").replace(/--\w+/g, "").trim()
RECURSIVE JoinWords(_, _)
JoinWords(args, i) ==
  IF i > Len(args) THEN <<>>
  ELSE (IF IsFlag(args[i]) THEN <<>> ELSE <<args[i]>>)
       \o (IF i < Len(args) THEN <<" ">> ELSE <<>>)
       \o JoinWords(args, i + 1)
QueryOf(args) == Trim(JoinWords(args, 2))

\* the task type chosen from the command
TaskOf(command) ==
  CASE command = "paper" -> "paper"
    [] command = "slides" -> "slides"
    [] command = "summary" -> "summary"
    [] command = "kol" -> "kol-briefing"
    [] command = "competitive" -> "competitive"
    [] OTHER -> "summary"

\* the number after a flag, when the flag and a word after it are there
FlagNumber(args, flag) ==
  IF Contains(args, flag) /\ IndexOf(args, flag) < Len(args)
    THEN <<ParseInt(args[IndexOf(args, flag) + 1])>>
    ELSE <<>>

\* the options object built from the flags; <<>> is an absent member
OptionsOf(args) ==
  [drugs |-> IF args[1] = "competitive" THEN <<"drug1", "drug2">> ELSE <<>>,
   clinicalOnly |-> Contains(args, "--clinical"),
   recentYears |-> FlagNumber(args, "--recent"),
   maxResults |-> FlagNumber(args, "--max")]

\* an exception nothing catches: the runtime prints it and the process ends
\* with code 1
Uncaught(error) == [out |-> <<"uncaught: " \o error>>, code |-> 1]

\* no argument: the usage text is printed and process.exit(1) called
CliUsage ==
  /\ cliPc = "start"
  /\ cliArgs = <<>>
  /\ cliOut' = <<"usage">>
  /\ cliExit' = <<1>>
  /\ cliPc' = "exited"
  /\ UNCHANGED <<cliArgs, cliParsed, coVars, notCliVars>>

\* search <query> and abstract <pmid>: the agent is constructed without an
\* argument, then quickSearch or getAbstract is called
CliLookup ==
  /\ cliPc = "start"
  /\ Len(cliArgs) >= 2
  /\ cliArgs[1] \in {"search", "abstract"}
  /\ \E envKey \in EnvKeys :
       LET made == ConstructAgent(<<>>, envKey)
       IN /\ coCall' = [site |-> "cli.js " \o cliArgs[1], options |-> <<>>, envKey |-> envKey]
          /\ coResult' = <<made>>
          /\ IF made.threw
               THEN /\ cliOut' = Uncaught(made.error).out
                    /\ cliExit' = <<Uncaught(made.error).code>>
                    /\ cliPc' = "exited"
               ELSE /\ cliPc' = "awaiting"
                    /\ UNCHANGED <<cliOut, cliExit>>
  /\ cliParsed' = <<[query |-> IF cliArgs[1] = "search" THEN JoinWords(cliArgs, 2)
                                ELSE <<cliArgs[2]>>,
                     taskType |-> cliArgs[1], options |-> <<>>]>>
  /\ UNCHANGED <<cliArgs, notCliVars>>

\* every other command: query, task type and options are taken from the
\* arguments, the agent is constructed without an argument, then research is
\* called
CliResearch ==
  /\ cliPc = "start"
  /\ cliArgs # <<>>
  /\ ~(Len(cliArgs) >= 2 /\ cliArgs[1] \in {"search", "abstract"})
  /\ cliParsed' = <<[query |-> QueryOf(cliArgs), taskType |-> TaskOf(cliArgs[1]),
                     options |-> OptionsOf(cliArgs)]>>
  /\ \E envKey \in EnvKeys :
       LET made == ConstructAgent(<<>>, envKey)
       IN /\ coCall' = [site |-> "cli.js research", options |-> <<>>, envKey |-> envKey]
          /\ coResult' = <<made>>
          /\ IF made.threw
               THEN /\ cliOut' = Uncaught(made.error).out
                    /\ cliExit' = <<Uncaught(made.error).code>>
                    /\ cliPc' = "exited"
               ELSE /\ cliPc' = "awaiting"
                    /\ UNCHANGED <<cliOut, cliExit>>
  /\ UNCHANGED <<cliArgs, notCliVars>>

CliInit ==
  /\ cliArgs \in CommandLines
  /\ cliPc = "start" /\ cliOut = <<>> /\ cliExit = <<>> /\ cliParsed = <<>>
  /\ CoIdle
  /\ clock = 0 /\ ParseIdle /\ NegIdle /\ PmIdle /\ IoIdle /\ AgIdle /\ PlIdle
  /\ GenIdle /\ CkIdle /\ MoreIdle
CliNext == CliUsage \/ CliLookup \/ CliResearch
SpecCli == CliInit /\ [][CliNext]_vars

\* ------------------------------------------------ two runs on one system
\* Two research() calls on one MultiAgentResearchSystem. Each call runs until
\* its next await; while it waits the other call may run. this.currentProject
\* and the disk belong to the instance and are the same for both calls; project
\* and the loop indices are locals of each call.
RunValidCounts == {0, 1}
RunLoopStages == <<"planning", "execution", "writing">>
RunCheckpointOf(stage) ==
  CASE stage = "planning" -> "planning"
    [] stage = "execution" -> "execution"
    [] stage = "writing" -> "papers"

\* the data of a checkpoint: one item per valid hypothesis of the writing call
RunData(r, n) == [k \in 1..n |-> [query |-> r]]

\* history: the writes a call added to the disk, with the call that made them
RunLogged(log, r, before, after) ==
  log \o [k \in 1..(Len(after) - Len(before)) |->
            [run |-> r, name |-> after[Len(before) + k].name,
             dir |-> after[Len(before) + k].dir]]

\* writeState called once for each name, in order
RECURSIVE WriteStates(_, _, _, _)
WriteStates(disk, project, names, data) ==
  IF names = <<>> THEN disk
  ELSE WriteStates(WriteState(disk, project, Head(names), data), project, Tail(names), data)

\* research(query) up to the await of startProject; query is the call's name
RunStartProject(r) ==
  /\ runPc[r] = "idle"
  /\ \E id \in ClockReadings :
       \E started \in ReadingsAfter(id) :
         LET project == [id |-> id, query |-> r, dir |-> id]
             disk == WriteState(files, <<project>>, "initial",
                                [query |-> r, started |-> started])
         IN /\ currentProject' = <<project>>
            /\ files' = disk
            /\ runWrites' = RunLogged(runWrites, r, files, disk)
            /\ runProject' = [runProject EXCEPT ![r] = <<project>>]
            /\ clock' = started
  /\ runPc' = [runPc EXCEPT ![r] = "created"]
  /\ UNCHANGED <<runI, runValid, runSettled>>

\* startProject has returned: IdeationAgent.generate is called and awaited
RunIdeationBegins(r) ==
  /\ runPc[r] = "created"
  /\ runPc' = [runPc EXCEPT ![r] = "ideation"]
  /\ UNCHANGED <<runI, runValid, runProject, runSettled, runWrites, currentProject, files,
                 clock>>

\* generate has answered with n valid hypotheses: the ideation checkpoint is
\* written; with none, the three loops are empty and research runs to its end
RunIdeationAnswered(r) ==
  /\ runPc[r] = "ideation"
  /\ \E n \in RunValidCounts :
       LET names == IF n = 0 THEN <<"ideation", "planning", "execution", "papers">>
                    ELSE <<"ideation">>
           disk == WriteStates(files, currentProject, names, RunData(r, n))
       IN /\ files' = disk
          /\ runWrites' = RunLogged(runWrites, r, files, disk)
          /\ runValid' = [runValid EXCEPT ![r] = n]
          /\ IF n = 0
               THEN /\ runPc' = [runPc EXCEPT ![r] = "done"]
                    /\ runSettled' = [runSettled EXCEPT ![r] =
                         <<[outcome |-> "resolved", project |-> runProject[r][1]]>>]
                    /\ UNCHANGED runI
               ELSE /\ runPc' = [runPc EXCEPT ![r] = "planning"]
                    /\ runI' = [runI EXCEPT ![r] = 1]
                    /\ UNCHANGED runSettled
  /\ UNCHANGED <<runProject, currentProject, clock>>

\* the awaited call of a loop has answered: the next item, or the checkpoint of
\* the stage and the next stage, or the return
RunLoopAnswered(r) ==
  /\ \E s \in 1..Len(RunLoopStages) :
       /\ runPc[r] = RunLoopStages[s]
       /\ IF runI[r] < runValid[r]
            THEN /\ runI' = [runI EXCEPT ![r] = runI[r] + 1]
                 /\ UNCHANGED <<runPc, runSettled, runWrites, files>>
            ELSE LET disk == WriteState(files, currentProject,
                                        RunCheckpointOf(RunLoopStages[s]),
                                        RunData(r, runValid[r]))
                 IN /\ files' = disk
                    /\ runWrites' = RunLogged(runWrites, r, files, disk)
                    /\ IF s < Len(RunLoopStages)
                         THEN /\ runPc' = [runPc EXCEPT ![r] = RunLoopStages[s + 1]]
                              /\ runI' = [runI EXCEPT ![r] = 1]
                              /\ UNCHANGED runSettled
                         ELSE /\ runPc' = [runPc EXCEPT ![r] = "done"]
                              /\ runSettled' = [runSettled EXCEPT ![r] =
                                   <<[outcome |-> "resolved",
                                      project |-> runProject[r][1]]>>]
                              /\ UNCHANGED runI
  /\ UNCHANGED <<runValid, runProject, currentProject, clock>>

\* the awaited call throws: research is rejected where it stands
RunAwaitThrew(r) ==
  /\ runPc[r] \in {"ideation", "planning", "execution", "writing"}
  /\ runPc' = [runPc EXCEPT ![r] = "rejected"]
  /\ runSettled' = [runSettled EXCEPT ![r] = <<[outcome |-> "rejected", project |-> <<>>]>>]
  /\ UNCHANGED <<runI, runValid, runProject, runWrites, currentProject, files, clock>>

plRunRest == <<plPc, plI, plOpts, plLog, hypotheses, validHypotheses, plans, results, papers,
               plSettled>>
RunsInit ==
  /\ clock = 0 /\ ParseIdle /\ NegIdle /\ PmIdle /\ IoIdle /\ AgIdle /\ PlIdle /\ RestIdle
RunsNext ==
  /\ \E r \in Runs :
       \/ RunStartProject(r)
       \/ RunIdeationBegins(r)
       \/ RunIdeationAnswered(r)
       \/ RunLoopAnswered(r)
       \/ RunAwaitThrew(r)
  /\ UNCHANGED <<parseVars, negVars, pmVars, ioVars, agVars, plRunRest, genVars, ckRead,
                 coVars, cliVars, iaVars>>
SpecRuns == RunsInit /\ [][RunsNext]_vars

\* ------------------------------------------- one workflow or pipeline run
\* one run of either kind: MAResearchAgent.research or
\* MultiAgentResearchSystem.research, on clients that no other run uses
WorkflowInit ==
  /\ PmIdleWith({"ok", "alternate", "fail"})
  /\ clock = 0 /\ ParseIdle /\ NegIdle /\ IoIdle /\ AgIdle /\ PlIdle /\ RestIdle
WorkflowNext ==
  \/ plPc = "idle" /\ AgentNext
  \/ agPc = "idle" /\ PipelineNext
SpecWorkflow == WorkflowInit /\ [][WorkflowNext]_vars

\* ------------------------------------------- MAResearchAgent.interactive
\* lines typed at the prompt
QuitLine == <<"q", "u", "i", "t">>
ExitLine == <<"e", "x", "i", "t">>
SearchPrefix == <<"s", "e", "a", "r", "c", "h", " ">>
AbstractPrefix == <<"a", "b", "s", "t", "r", "a", "c", "t", " ">>
InputLines ==
  {QuitLine, <<" ">> \o ExitLine \o <<" ">>, <<>>, <<" ", " ">>,
   SearchPrefix \o <<"q">>, SearchPrefix, <<" ">> \o SearchPrefix \o <<"q", " ">>,
   AbstractPrefix \o <<"1">>, <<"q">>, QuitLine \o <<"s">>}

\* String.prototype.startsWith
StartsWith(s, p) == Len(s) >= Len(p) /\ SubSeq(s, 1, Len(p)) = p

\* the branch the question callback takes for the trimmed line
CommandOfMutQuitOnly(input) ==
  IF input = QuitLine THEN "quit"
  ELSE IF Len(input) = 0 THEN "empty"
  ELSE IF StartsWith(input, SearchPrefix) THEN "search"
  ELSE IF StartsWith(input, AbstractPrefix) THEN "abstract"
  ELSE "research"
CommandOf(input) ==
  IF input = QuitLine \/ input = ExitLine THEN "quit"
  ELSE IF Len(input) = 0 THEN "empty"
  ELSE IF StartsWith(input, SearchPrefix) THEN "search"
  ELSE IF StartsWith(input, AbstractPrefix) THEN "abstract"
  ELSE "research"

\* how quickSearch (searchFull) can end: search rethrows a failed request, else
\* an array is returned
QuickSearchOutcomes ==
  {[threw |-> TRUE, error |-> "esearch request failed", value |-> <<>>],
   [threw |-> TRUE, error |-> "esummary request failed", value |-> <<>>],
   [threw |-> FALSE, error |-> "", value |-> <<>>],
   [threw |-> FALSE, error |-> "", value |-> <<[pmid |-> IdOf(1), title |-> <<"a">>]>>]}
\* how getAbstract can end: always with a record
AbstractOutcomes ==
  {[threw |-> FALSE, error |-> "", value |-> GetAbstractRecord(IdOf(1), resp)] :
     resp \in {TextResponse(GoodPayload(IdOf(1))), TextResponse(BarePayload),
               FailedResponse, ObjectResponse}}
\* how research can end: always resolved, with a result or a failure result
ResearchOutcomes ==
  {[threw |-> FALSE, error |-> "", value |-> Caught("No articles found for query").value],
   [threw |-> FALSE, error |-> "", value |-> [success |-> TRUE]]}
OutcomesOf(call) ==
  CASE call = "search" -> QuickSearchOutcomes
    [] call = "abstract" -> AbstractOutcomes
    [] call = "research" -> ResearchOutcomes

\* a rejection of the async question callback is handled by nobody: the process
\* ends with the error, or (with warnings only) goes on without a pending question
UnhandledRejection == {"crashed", "stalled"}

\* interactive(): the interface is created and ask() issues the first prompt
InteractiveStart ==
  /\ iaPc = "idle"
  /\ iaPc' = "prompt"
  /\ iaPrompts' = 1
  /\ UNCHANGED <<iaLines, iaResult>>

\* a line is read: the callback runs up to its return or its first await
InteractiveLine ==
  /\ iaPc = "prompt"
  /\ Len(iaLines) < MaxLines
  /\ \E line \in InputLines :
       LET command == CommandOf(Trim(line))
       IN /\ iaLines' = Append(iaLines, line)
          /\ CASE command = "quit" -> iaPc' = "closed" /\ UNCHANGED iaPrompts
               [] command = "empty" -> iaPc' = "prompt" /\ iaPrompts' = iaPrompts + 1
               [] OTHER -> iaPc' = command /\ UNCHANGED iaPrompts
  /\ iaResult' = <<>>

\* the awaited call settled: a value is printed and ask() issues the prompt
\* again; an exception leaves the callback before ask()
InteractiveAnswered ==
  /\ iaPc \in {"search", "abstract", "research"}
  /\ \E o \in OutcomesOf(iaPc) :
       /\ iaResult' = <<o>>
       /\ IF o.threw
            THEN /\ iaPc' \in UnhandledRejection
                 /\ UNCHANGED iaPrompts
            ELSE /\ iaPc' = "prompt"
                 /\ iaPrompts' = iaPrompts + 1
  /\ UNCHANGED iaLines

notIaVars == <<clock, parseVars, negVars, pmVars, ioVars, agVars, plVars, genVars, ckRead,
               coVars, cliVars, runVars>>
InteractiveInit ==
  /\ clock = 0 /\ ParseIdle /\ NegIdle /\ PmIdle /\ IoIdle /\ AgIdle /\ PlIdle /\ RestIdle
InteractiveNext ==
  /\ InteractiveStart \/ InteractiveLine \/ InteractiveAnswered
  /\ UNCHANGED notIaVars
SpecInteractive == InteractiveInit /\ [][InteractiveNext]_vars
\* every awaited call settles; nothing makes the user type another line
FairInteractive ==
  SpecInteractive /\ WF_vars(InteractiveStart /\ UNCHANGED notIaVars)
    /\ WF_vars(InteractiveAnswered /\ UNCHANGED notIaVars)

\* ---------------------------------------------------------------- claims
\* the statement a numbered line carries, once numbering and label are removed
LineStatement(n) ==
  CASE n = "numDot" -> <<"A", "b">>
    [] n = "numParHyp" -> <<"C">>
    [] n = "hypOnly" -> <<"d">>
    [] OTHER -> LineBody(n)

HeaderAt == {i \in 1..Len(lineSrc) : LineKind(lineSrc[i]) \in {"numbered", "labelled"}}
NumberedAt == {i \in 1..Len(lineSrc) : LineKind(lineSrc[i]) = "numbered"}
NextNumbered(i) == MinOf({j \in NumberedAt : j > i} \cup {Len(lineSrc) + 1})
DescAfter(i) == {j \in (i + 1)..(NextNumbered(i) - 1) : LineKind(lineSrc[j]) = "description"}
RankOf(i) == Cardinality({j \in NumberedAt : j <= i})

NoHeaderInput == ppc = "parsed" /\ HeaderAt = {}

\* C8: a text with no numbered line and no line containing "hypothesis" parses to
\* exactly one fallback hypothesis {statement: first 200 characters, passedReview: true}
C8_Fallback ==
  NoHeaderInput =>
    /\ Len(parsed) = 1
    /\ DOMAIN parsed[1] = {"statement", "passedReview"}
    /\ parsed[1].passedReview = TRUE
    /\ Len(parsed[1].statement) = (IF Len(text) < 200 THEN Len(text) ELSE 200)
    /\ \A i \in 1..Len(parsed[1].statement) : parsed[1].statement[i] = text[i]

\* C8 witness: a header-free text longer than 200 characters was parsed and truncated
C8_Witness ==
  /\ NoHeaderInput
  /\ Len(text) > 200
  /\ Len(parsed) = 1
  /\ Len(parsed[1].statement) = 200

NumberedInput ==
  /\ ppc = "parsed"
  /\ NumberedAt # {}
  /\ HeaderAt = NumberedAt
  /\ \A i \in NumberedAt : Cardinality(DescAfter(i)) >= 2

\* C9: k numbered lines, each followed by two description lines longer than 20
\* characters, parse to k hypotheses in input order; importance is the first and
\* validation the second such line after the numbered line
C9_Numbered ==
  NumberedInput =>
    /\ Len(parsed) = Cardinality(NumberedAt)
    /\ \A i \in NumberedAt :
         LET h == parsed[RankOf(i)]
             d1 == MinOf(DescAfter(i))
             d2 == MinOf(DescAfter(i) \ {d1})
         IN /\ h.statement = LineStatement(lineSrc[i])
            /\ h.importance = LineBody(lineSrc[d1])
            /\ h.validation = LineBody(lineSrc[d2])
            /\ h.passedReview = TRUE

\* C9 witness: two numbered lines, each with its two descriptions, were parsed
\* into two hypotheses whose importance and validation differ
C9_Witness ==
  /\ NumberedInput
  /\ Cardinality(NumberedAt) = 2
  /\ Len(parsed) = 2
  /\ parsed[1].importance # parsed[1].validation
  /\ parsed[2].validation # <<>>

\* where the words of the analysis put the phrases (from the history wordSrc)
InsufficientEndsAt(i) ==
  \/ wordSrc[i] \in {"insuff", "insuffMixed"}
  \/ wordSrc[i] = "sufficient" /\ i > 1 /\ wordSrc[i - 1] = "in"
EvidenceStartsAt(i) ==
  /\ i <= Len(wordSrc)
  /\ \/ wordSrc[i] = "spEvidence"
     \/ wordSrc[i] = "space" /\ i < Len(wordSrc) /\ wordSrc[i + 1] = "evidence"
SaysInsufficient == \E i \in 1..Len(wordSrc) : InsufficientEndsAt(i)
SaysInsufficientEvidence ==
  \E i \in 1..Len(wordSrc) : InsufficientEndsAt(i) /\ EvidenceStartsAt(i + 1)
SaysLimitedEvidence ==
  \E i \in 1..Len(wordSrc) : wordSrc[i] = "limited" /\ EvidenceStartsAt(i + 1)

\* C10: an analysis containing "insufficient evidence" in any letter case gets
\* negativeResult = true, one containing neither "insufficient" nor "limited evidence"
\* gets false, and write copies the flag into the paper's isNegativeResult
C10_NegativeFlag ==
  /\ (npc \in {"ran", "written"} /\ SaysInsufficientEvidence)
       => execResult[1].negativeResult = TRUE
  /\ (npc \in {"ran", "written"} /\ ~SaysInsufficient /\ ~SaysLimitedEvidence)
       => execResult[1].negativeResult = FALSE
  /\ npc = "written" => paperRec[1].isNegativeResult = execResult[1].negativeResult

\* C10 witness: a paper was written for an analysis saying "INSUFFicienT Evidence"
C10_Witness ==
  /\ npc = "written"
  /\ \E i \in 1..Len(wordSrc) : wordSrc[i] = "insuffMixed" /\ EvidenceStartsAt(i + 1)
  /\ ~Includes(analysis, InsufficientWord)
  /\ paperRec[1].isNegativeResult = TRUE

SearchReturned == pmCall = "search" /\ pmPc = "returned"
UsableIds == SelectSeq(idList, LAMBDA id : esKinds[id] \in {"full", "noTitle"})

\* C5 as stated: a search whose identifier search returned n identifiers returns
\* n articles, the i-th article carrying the i-th identifier
C5_Original ==
  SearchReturned =>
    /\ Len(pmResult) = Len(idList)
    /\ \A i \in 1..Len(pmResult) : pmResult[i].pmid = idList[i]

\* C5 amended: search returns one article for each identifier whose summary record
\* exists and carries a uid, in identifier-list order: at most n articles, every
\* article's identifier from the list, and exactly n when no record is missing
C5_Search ==
  SearchReturned =>
    /\ Len(pmResult) = Len(UsableIds)
    /\ \A i \in 1..Len(pmResult) : pmResult[i].pmid = UsableIds[i]
    /\ Len(pmResult) <= Len(idList)
    /\ \A i \in 1..Len(pmResult) : pmResult[i].pmid \in IdsOf(idList)
    /\ (\A id \in IdsOf(idList) : esKinds[id] \in {"full", "noTitle"})
         => /\ Len(pmResult) = Len(idList)
            /\ \A i \in 1..Len(idList) : pmResult[i].pmid = idList[i]

\* C5 witness: three identifiers, not in ascending order, one without a summary
\* record: two articles returned
C5_Witness ==
  /\ SearchReturned
  /\ Len(idList) = 3
  /\ idList[1] = IdOf(3)
  /\ esKinds[idList[2]] = "missing"
  /\ Len(pmResult) = 2
  /\ pmResult[2].pmid = idList[3]

FullReturned == pmCall = "searchFull" /\ pmPc = "returned"
Enriched == IF Len(pmResult) < 10 THEN Len(pmResult) ELSE 10

\* the abstract the efetch endpoint serves for the i-th fetch, for pmid
ServedAbstract(pmid, i) ==
  IF efBehaviour = "ok" \/ (efBehaviour = "alternate" /\ i % 2 = 1) THEN <<pmid, "a">> ELSE <<>>

\* C6: searchFull fetches abstracts for exactly the first min(10, n) articles, merges
\* each into the article with the same identifier and leaves every article from
\* index 10 on with abstract "", whatever maxResults is
C6_SearchFull ==
  FullReturned =>
    /\ Len(fetchLog) = Enriched
    /\ \A i \in 1..Enriched : fetchLog[i] = pmResult[i].pmid
    /\ \A i \in 1..Enriched : pmResult[i].abstract = ServedAbstract(pmResult[i].pmid, i)
    /\ \A i \in 1..Len(pmResult) : i > 10 => pmResult[i].abstract = <<>>

\* C6 witness: eleven articles with maxResults 20, the tenth enriched, the eleventh not
C6_Witness ==
  /\ FullReturned
  /\ pmRetmax = 20
  /\ Len(pmResult) = 11
  /\ pmResult[10].abstract # <<>>
  /\ pmResult[11].abstract = <<>>
  /\ pmResult[1].pmid # IdOf(1)

AbstractReturned == pmCall = "getAbstract" /\ pmPc = "returned"
\* the payload holds no abstract element (or is no text at all)
NothingToExtract ==
  \/ efResp[1].kind # "text"
  \/ ~\E i, j \in 1..Len(efResp[1].data) :
        i < j /\ efResp[1].data[i] = "AO" /\ efResp[1].data[j] = "AC"

\* C7 as stated: getAbstract returns, for every payload from which no abstract can
\* be extracted, a record with abstract "" and the error field set
C7_Original ==
  (AbstractReturned /\ NothingToExtract) =>
    /\ pmResult[1].abstract = <<>>
    /\ "error" \in DOMAIN pmResult[1]

\* C7 amended: getAbstract never raises; for every payload from which no abstract can
\* be extracted it returns a record with its pmid and abstract ""; the error field is
\* set exactly when the request failed or the payload is no text (the catch block),
\* not for a text payload that lacks the abstract markup
C7_GetAbstract ==
  pmCall = "getAbstract" =>
    /\ pmPc # "threw"
    /\ pmPc = "returned" =>
         /\ pmResult[1].pmid = pmPmids[1]
         /\ NothingToExtract => pmResult[1].abstract = <<>>
         /\ ("error" \in DOMAIN pmResult[1]) <=> (efResp[1].kind # "text")

\* C7 witness: a text payload with an opening but no closing abstract tag was
\* answered with abstract "" and no error field
C7_Witness ==
  /\ AbstractReturned
  /\ efResp[1].kind = "text"
  /\ \E i \in 1..Len(efResp[1].data) : efResp[1].data[i] = "AO"
  /\ NothingToExtract
  /\ pmResult[1].abstract = <<>>
  /\ "error" \notin DOMAIN pmResult[1]

AgentDone == agPc = "done"
AgentResult == agSettled[1].value
SearchFoundNothing == pmCall = "searchFull" /\ pmPc = "returned" /\ pmResult = <<>>

\* C1: research whose literature search yields zero articles returns
\* {success: false, error: "No articles found for query"} and makes no Generative
\* Client call and no Document Generator call
C1_NoArticles ==
  SearchFoundNothing =>
    /\ veniceCalls = <<>>
    /\ outputCalls = <<>>
    /\ vPc = "idle"
    /\ AgentDone =>
         /\ agSettled[1].outcome = "resolved"
         /\ AgentResult = [success |-> FALSE, error |-> "No articles found for query"]

\* C1 witness: research(query, "summary", {}) ended after a search without articles
C1_Witness ==
  /\ AgentDone
  /\ agTask = "summary"
  /\ agOpts = [clinicalOnly |-> FALSE, recentYears |-> 0, maxResults |-> 0]
  /\ SearchFoundNothing
  /\ AgentResult.success = FALSE

VeniceThrew ==
  veniceAnswers # <<>> /\ veniceAnswers[1] \in {"noChoices", "httpError", "networkError"}
OutputThrew == outputAnswers # <<>> /\ outputAnswers[1] = "failed"
FailureResult(r) == DOMAIN r = {"success", "error"} /\ r.success = FALSE /\ r.error # ""

\* C2: research never rejects; a failure of the search, synthesize or format stage
\* becomes {success: false, error: message}, and every other run resolves to
\* success = true with query, taskType, articles, summary, outputPath and duration
C2_AlwaysResult ==
  /\ agSettled # <<>> => (AgentDone /\ agSettled[1].outcome = "resolved")
  /\ AgentDone =>
       /\ agSettled # <<>>
       /\ pmPc = "threw" => (FailureResult(AgentResult) /\ AgentResult.error = pmError)
       /\ SearchFoundNothing => FailureResult(AgentResult)
       /\ VeniceThrew => FailureResult(AgentResult)
       /\ OutputThrew => (FailureResult(AgentResult) /\ AgentResult.error = "output failed")
       /\ (pmPc # "threw" /\ ~SearchFoundNothing /\ ~VeniceThrew /\ ~OutputThrew) =>
            /\ DOMAIN AgentResult = {"success", "query", "taskType", "articles", "summary",
                                     "outputPath", "duration"}
            /\ AgentResult.success = TRUE
            /\ AgentResult.taskType = agTask
            /\ AgentResult.articles = pmResult
            /\ AgentResult.summary = agSummary
            /\ outputAnswers = <<"written">>

\* C2 witness: the format stage failed after a successful search and synthesis, and
\* research resolved to a failure result
C2_Witness ==
  /\ AgentDone
  /\ OutputThrew
  /\ veniceAnswers = <<"ok">>
  /\ Len(agArticles) >= 2
  /\ agSettled[1].outcome = "resolved"
  /\ AgentResult.success = FALSE

EventsOf(kind) == SelectSeq(plLog, LAMBDA e : e.ev = kind)
NamesOf(entries) == [i \in 1..Len(entries) |-> entries[i].name]
IsPrefix(a, b) == Len(a) <= Len(b) /\ \A i \in 1..Len(a) : a[i] = b[i]
StageIndex(name) == CHOOSE k \in 1..Len(StageOrder) : StageOrder[k] = name
StagesEntered == NamesOf(EventsOf("stage"))
CheckpointsWritten == NamesOf(EventsOf("checkpoint"))
ClientInFlight == pmPc \in {"esearch", "esummary", "efetch", "sleep"}

\* C3: in every run of MultiAgentResearchSystem.research the stages are entered
\* in the order Created, Ideation, Planning, Execution, Writing, Done, none twice
\* and none skipped, and every search or generative call of a stage is issued
\* after the checkpoint of the stage before it was written (initial, ideation,
\* planning, execution, papers); a run that resolves has entered every stage and
\* written every checkpoint
C3_StageOrder ==
  /\ IsPrefix(StagesEntered, StageOrder)
  /\ IsPrefix(CheckpointsWritten, CheckpointNames)
  /\ NamesOf(files) = CheckpointsWritten
  /\ Len(EventsOf("call")) = Len(veniceCalls) + (IF pmCall = "none" THEN 0 ELSE 1)
  /\ \A p \in 1..Len(plLog) :
       plLog[p].ev = "call" =>
         LET k == StageIndex(plLog[p].name)
         IN /\ k \in 2..5
            /\ \E q \in 1..(p - 1) : plLog[q] = CheckpointEntry(CheckpointNames[k - 1])
            /\ \E q \in 1..(p - 1) : plLog[q] = StageEntry(StageOrder[k])
            /\ \A q \in 1..(p - 1) :
                 /\ plLog[q] # StageEntry(StageOrder[k + 1])
                 /\ plLog[q] # CheckpointEntry(CheckpointNames[k])
  /\ ClientInFlight =>
       (StagesEntered = <<"Created", "Ideation">> /\ CheckpointsWritten = <<"initial">>)
  /\ vPc = "request" => plPc = CASE Len(StagesEntered) = 2 -> "ideationGenerate"
                                 [] Len(StagesEntered) = 3 -> "planning"
                                 [] Len(StagesEntered) = 4 -> "execution"
                                 [] Len(StagesEntered) = 5 -> "writing"
                                 [] OTHER -> "none"
  /\ plPc = "done" => (StagesEntered = StageOrder /\ CheckpointsWritten = CheckpointNames)

\* C3 witness: a run over two hypotheses resolved, after two calls in each of
\* the planning, execution and writing stages
C3_Witness ==
  /\ plPc = "done"
  /\ Len(validHypotheses) = 2
  /\ Len(papers) = 2
  /\ Len(veniceCalls) = 7
  /\ Len(files) = 5

AbstractFetchFailed == \E j \in 1..Len(pmAbstracts) : "error" \in DOMAIN pmAbstracts[j]
SearchFailed == pmError # ""
GenerateFailed ==
  \E i \in 1..Len(veniceAnswers) : veniceAnswers[i] \in {"noChoices", "httpError", "networkError"}
FailureOf ==
  IF SearchFailed THEN pmError
  ELSE IF GenerateFailed THEN GenerateOutcome(veniceAnswers[Len(veniceAnswers)], <<>>).error
  ELSE "Request failed"

\* research has aborted: it rejected, no request is in flight, the last stage
\* entered is not Done and only the stages before it have a checkpoint
Aborted ==
  /\ plPc = "rejected"
  /\ plSettled # <<>> /\ plSettled[1].outcome = "rejected"
  /\ vPc = "idle" /\ ~ClientInFlight
  /\ Len(StagesEntered) \in 2..5
  /\ NamesOf(files) = SubSeq(CheckpointNames, 1, Len(StagesEntered) - 1)
  /\ CheckpointsWritten = NamesOf(files)

\* searchFull has thrown and the exception is on its way out of research: the
\* only step left is the rejection
Aborting ==
  /\ plPc = "ideationSearch" /\ pmPc = "threw"
  /\ vPc = "idle" /\ veniceCalls = <<>>
  /\ NamesOf(files) = <<"initial">>
  /\ ~ENABLED (PipelineNext /\ plPc' # "rejected")

\* when a call of the given kind has failed, research aborts with that error;
\* and once it has rejected nothing more happens
AbortsWhen(failed) ==
  /\ failed => (Aborting \/ (Aborted /\ plSettled[1].value = FailureOf))
  /\ plPc = "rejected" => (Aborted /\ ~ENABLED PipelineNext)

\* C4 as stated: the failure of any call inside a stage, an abstract fetch
\* included, aborts research
C4_Original == AbortsWhen(SearchFailed \/ GenerateFailed \/ AbstractFetchFailed)

\* C4: when a call inside a pipeline stage other than an individual abstract
\* fetch fails (the identifier search, the summary request or a generative
\* call), research rejects with that error, starts no later stage, issues no
\* further network call and writes no checkpoint for the failing or any later
\* stage, and the checkpoints of the completed stages stay; a failed abstract
\* fetch does not abort the run
C4_Abort ==
  /\ AbortsWhen(SearchFailed \/ GenerateFailed)
  /\ plPc = "rejected" =>
       \/ SearchFailed
       \/ GenerateFailed
       \/ veniceAnswers[Len(veniceAnswers)] = "noContent"

\* C4 witness: the second analysis call failed; research rejected with the
\* planning checkpoint written and no execution checkpoint
C4_Witness ==
  /\ plPc = "rejected"
  /\ StagesEntered[Len(StagesEntered)] = "Execution"
  /\ Len(results) = 1
  /\ veniceAnswers[Len(veniceAnswers)] = "httpError"
  /\ plSettled[1].value = "Request failed with status code 500"
  /\ NamesOf(files) = <<"initial", "ideation", "planning">>

GenerateEnded == genPc \in {"returned", "threw"}
NonSuccessAnswer == genResp # <<>> /\ genResp[1].status # 0 /\ ~SuccessStatus(genResp[1].status)
LacksTextField ==
  genResp # <<>> /\ SuccessStatus(genResp[1].status) /\ genResp[1].body # "content"

\* C11 as stated: generate rejects whenever the upstream answers with a
\* non-success status or with a body lacking the text field, the error carries
\* the upstream status, and no text is returned
C11_Original ==
  (GenerateEnded /\ (NonSuccessAnswer \/ LacksTextField)) =>
    /\ genPc = "threw"
    /\ genResult[1].status = <<genResp[1].status>>
    /\ genResult[1].value = <<>>

\* C11, what the code does: a non-success status rejects with the request error
\* carrying that status; a 2xx body without choices, without a first choice or
\* without its message rejects with a TypeError that carries no status; a 2xx
\* body whose message has no content does not reject, generate returns
\* undefined; the content member is returned whenever it is present
C11_Generate ==
  GenerateEnded =>
    LET resp == genResp[1]
        r == genResult[1]
    IN /\ NonSuccessAnswer =>
            (genPc = "threw" /\ r.class = "AxiosError" /\ r.status = <<resp.status>>
             /\ r.value = <<>>)
       /\ (LacksTextField /\ resp.body # "noContent") =>
            (genPc = "threw" /\ r.class = "TypeError" /\ r.status = <<>> /\ r.value = <<>>)
       /\ (LacksTextField /\ resp.body = "noContent") =>
            (genPc = "returned" /\ r.value = <<>>)
       /\ (SuccessStatus(resp.status) /\ resp.body = "content") =>
            (genPc = "returned" /\ r.value = <<resp.text>>)
       /\ resp.status = 0 => (genPc = "threw" /\ r.status = <<>>)

\* C11 witness: a 200 answer whose message has no content; generate returned
\* undefined
C11_Witness ==
  /\ genPc = "returned"
  /\ genResp[1].status = 200
  /\ genResp[1].body = "noContent"
  /\ genResult[1].value = <<>>
  /\ genRequest[1].temperature = DefaultTemperature

\* the entry of the file readState read, <<>> when there was none
FileRead ==
  LET written == {i \in 1..Len(files) :
                    /\ ckRead # <<>> /\ currentProject # <<>>
                    /\ files[i].dir = currentProject[1].dir /\ files[i].name = ckRead[1].name}
  IN IF written = {} THEN <<>> ELSE <<files[MaxOf(written)]>>

\* C12: readState(name) after writeState(name, data), for a stage output of
\* the pipeline, yields a value whose JSON.stringify(value, null, 2) is the very
\* text writeState put in the file; without a project or a file readState
\* yields null
C12_RoundTrip ==
  ckRead # <<>> =>
    IF FileRead = <<>> THEN ckRead[1].value = JsNull
    ELSE Stringify(ckRead[1].value, 0) = FileContent(FileRead[1])

\* C12 witness: the planning checkpoint of a fallback hypothesis whose statement
\* holds a quote, a backslash and a line break, with a plan without methodology,
\* was written and read back: the value read has one member fewer than written
C12_Witness ==
  /\ FileRead # <<>>
  /\ ckRead[1].name = "planning"
  /\ Len(FileRead[1].data) = 1
  /\ FileRead[1].data[1].methodology = <<>>
  /\ "\\" \in {FileRead[1].data[1].hypothesis.statement[i] :
                 i \in 1..Len(FileRead[1].data[1].hypothesis.statement)}
  /\ Len(ckRead[1].value.v[1].v) = 3
  /\ Len(PlanJs(FileRead[1].data[1]).v) = 4

CliExited == cliPc = "exited"
Printed(line) == \E i \in 1..Len(cliOut) : cliOut[i] = line
NoNetworkCall == pmPc = "idle" /\ vPc = "idle" /\ veniceCalls = <<>> /\ outputCalls = <<>>

\* C13 as stated: a run of the command-line program ends in one of three ways:
\* without arguments with exit code 1, with a caught error printed by its
\* handlers (a failure result of research included) and exit code 1, or with
\* its summary printed and exit code 0
C13_Original ==
  CliExited =>
    \/ cliArgs = <<>> /\ cliExit = <<1>>
    \/ Printed("caught error") /\ cliExit = <<1>>
    \/ Printed("summary") /\ cliExit = <<0>>

\* C13, what the code does: without arguments the usage text is printed and the
\* exit code is 1; with any command the constructor of the agent, called
\* without an argument, raises a TypeError nothing catches, so the program ends
\* with code 1 before any search, fetch or research call, and no handler of the
\* program prints anything
C13_Cli ==
  /\ cliPc # "awaiting"
  /\ CliExited =>
       /\ cliExit = <<1>>
       /\ cliArgs = <<>> => cliOut = <<"usage">>
       /\ cliArgs # <<>> =>
            /\ coResult # <<>> /\ coResult[1].threw
            /\ cliOut = Uncaught(coResult[1].error).out
            /\ NoNetworkCall

\* C13 witness: research q --clinical ended with an uncaught error after its
\* arguments were read
C13_Witness ==
  /\ CliExited
  /\ cliArgs = <<"research", "q", "--clinical">>
  /\ cliParsed[1].query = <<"q">>
  /\ cliParsed[1].options.clinicalOnly
  /\ cliExit = <<1>>

HasCollaborators(agent) == {"venice", "pubmed", "output"} \subseteq DOMAIN agent

\* C15 as stated: constructing MAResearchAgent with no argument does not raise
\* and yields an agent holding venice, pubmed and output
C15_Original ==
  (coResult # <<>> /\ coCall.options = <<>>) =>
    /\ ~coResult[1].threw
    /\ coResult[1].agent # <<>>
    /\ HasCollaborators(coResult[1].agent[1])

\* C15, what the code does: the constructor raises a TypeError exactly when it
\* is given no argument, as the test suite and the command-line entry points
\* do, and no agent exists then; given an options object it yields an agent
\* holding the three collaborators, the API key falling back to the environment
\* and the output directory to ./output
C15_Construct ==
  coResult # <<>> =>
    LET r == coResult[1]
    IN /\ r.threw <=> coCall.options = <<>>
       /\ coCall.site # "library" => r.threw
       /\ r.threw => (r.agent = <<>> /\ r.error # "")
       /\ ~r.threw =>
            /\ HasCollaborators(r.agent[1])
            /\ r.agent[1].venice.apiKey =
                 (IF coCall.options.veniceApiKey # "" THEN coCall.options.veniceApiKey
                  ELSE coCall.envKey)
            /\ r.agent[1].output.outputDir \in {coCall.options.outputDir, "./output"}
            /\ r.agent[1].output.outputDir # ""

\* C15 witness: Test 2 of the test suite constructed the agent and the
\* constructor raised
C15_Witness ==
  /\ coResult # <<>>
  /\ coCall.site = "test.js"
  /\ coCall.envKey = "e1"
  /\ coResult[1].threw

AgentStarted == agPc # "idle"

WritesOf(r) == SelectSeq(runWrites, LAMBDA w : w.run = r)
\* the directory of the project started last before the k-th write
RECURSIVE DirStartedBefore(_)
DirStartedBefore(k) ==
  IF k = 0 THEN -1
  ELSE IF runWrites[k].name = "initial" THEN runWrites[k].dir
  ELSE DirStartedBefore(k - 1)
RunStarted(r) == runProject[r] # <<>>

\* C16 as stated: every checkpoint a run writes lands in its own project
\* directory, two runs never have the same directory, and the project a run
\* returns is the one it started
C16_Original ==
  /\ \A k \in 1..Len(runWrites) : runWrites[k].dir = runProject[runWrites[k].run][1].dir
  /\ \A r, s \in Runs :
       (r # s /\ RunStarted(r) /\ RunStarted(s)) => runProject[r][1].dir # runProject[s][1].dir
  /\ \A r \in Runs :
       runPc[r] = "done" => runSettled[r][1].project = runProject[r][1]

\* C16, what the code does: a checkpoint goes to the directory of the project
\* that was started last on the instance, whichever call writes it; a completed
\* call has written each of the five checkpoints once and returns the project
\* it started itself, whose identifier is the clock reading at its start
C16_Runs ==
  /\ Len(files) = Len(runWrites)
  /\ \A k \in 1..Len(runWrites) :
       /\ runWrites[k].dir = DirStartedBefore(k)
       /\ files[k].dir = runWrites[k].dir /\ files[k].name = runWrites[k].name
  /\ \A r \in Runs :
       /\ RunStarted(r) =>
            /\ runProject[r][1].query = r
            /\ runProject[r][1].dir = runProject[r][1].id
            /\ runProject[r][1].id <= clock
       /\ runPc[r] = "done" =>
            /\ NamesOf(WritesOf(r)) = CheckpointNames
            /\ runSettled[r] = <<[outcome |-> "resolved", project |-> runProject[r][1]]>>

\* C16 witness: both calls completed; the second started in a later
\* millisecond while the first was waiting, and the first call's last
\* checkpoint is in the second call's directory
C16_Witness ==
  /\ runPc["first"] = "done" /\ runPc["second"] = "done"
  /\ runProject["first"][1].dir # runProject["second"][1].dir
  /\ \E k \in 1..Len(runWrites) :
       /\ runWrites[k].run = "first" /\ runWrites[k].name = "papers"
       /\ runWrites[k].dir = runProject["second"][1].dir

\* the requests awaiting an answer of the network
RequestsInFlight ==
  (IF pmPc \in {"esearch", "esummary", "efetch"} THEN 1 ELSE 0)
    + (IF vPc = "request" THEN 1 ELSE 0)
CallsOf(method) == Len(SelectSeq(veniceCalls, LAMBDA c : c = method))

\* C17: within one workflow or pipeline run at most one network request is in
\* flight: every search, abstract fetch and generative call is answered before
\* the next is issued, and articles, hypotheses, plans and results are
\* processed one at a time in index order
C17_OneAtATime ==
  /\ RequestsInFlight <= 1
  /\ Len(veniceCalls) = Len(veniceAnswers) + (IF vPc = "request" THEN 1 ELSE 0)
  /\ IsPrefix(fetchLog, pmPmids)
  /\ Len(pmAbstracts) = Len(fetchLog) - (IF pmPc = "efetch" THEN 1 ELSE 0)
  /\ \A j \in 1..Len(pmAbstracts) : pmAbstracts[j].pmid = pmPmids[j]
  /\ pmPc \in {"efetch", "sleep"} => pmI = Len(fetchLog)
  /\ \A i \in 1..Len(plans) : plans[i].hypothesis = validHypotheses[i]
  /\ \A i \in 1..Len(results) : results[i].plan = plans[i]
  /\ \A i \in 1..Len(papers) :
       /\ papers[i].hypothesis = validHypotheses[i].statement
       /\ papers[i].isNegativeResult = results[i].negativeResult
  /\ plPc = "planning" =>
       /\ Len(plans) = plI - 1 /\ CallsOf("planning.createPlan") = plI
       /\ CallsOf("execution.run") = 0
  /\ plPc = "execution" =>
       /\ Len(plans) = Len(validHypotheses)
       /\ Len(results) = plI - 1 /\ CallsOf("execution.run") = plI
       /\ CallsOf("writing.write") = 0
  /\ plPc = "writing" =>
       /\ Len(results) = Len(plans)
       /\ Len(papers) = plI - 1 /\ CallsOf("writing.write") = plI

\* C17 witness: a pipeline run awaits the paper of its second result, after the
\* abstract fetches of ideation and two plans and two analyses were answered
C17_Witness ==
  /\ plPc = "writing" /\ plI = 2 /\ vPc = "request"
  /\ Len(pmAbstracts) >= 1
  /\ Len(plans) = 2 /\ Len(results) = 2 /\ Len(papers) = 1
  /\ validHypotheses[1] # validHypotheses[2]

\* a workflow run fetched the abstracts of three articles, one after the other
C17_AgentFetches == agPc = "done" /\ Len(pmAbstracts) = 3

FetchFailed(resp) == resp.kind # "text"

\* C18: getAbstracts never aborts a batch: whatever the identifiers and
\* whichever fetches fail, every fetch adds one record carrying its identifier
\* (a failed one with abstract "" and an error message) and is followed by a
\* pause before the next fetch starts, and the call returns one record per
\* input identifier, in input order
C18_Batch ==
  [][/\ pmPc = "efetch" =>
          /\ pmPc' = "sleep"
          /\ pmAbstracts' = Append(pmAbstracts, pmAbstracts'[Len(pmAbstracts) + 1])
          /\ pmAbstracts'[pmI].pmid = pmPmids[pmI]
          /\ FetchFailed(efResp'[1]) <=>
               /\ "error" \in DOMAIN pmAbstracts'[pmI]
               /\ pmAbstracts'[pmI].abstract = <<>>
     /\ pmPc' = "efetch" =>
          /\ pmPc = "sleep" \/ (pmPc = "idle" /\ pmI' = 1)
          /\ fetchLog' = SubSeq(pmPmids', 1, pmI')
     /\ pmPc = "sleep" => pmAbstracts' = pmAbstracts
     /\ pmPc' # "threw"
     /\ pmPc' = "returned" =>
          /\ Len(pmResult') = Len(pmPmids')
          /\ \A i \in 1..Len(pmPmids') : pmResult'[i].pmid = pmPmids'[i]
          /\ fetchLog' = pmPmids'
    ]_vars

\* C18 witness: a batch of three identifiers, the first repeated, returned after
\* its first and last fetch failed and the second succeeded
C18_Witness ==
  /\ pmCall = "getAbstracts" /\ pmPc = "returned"
  /\ pmPmids = <<IdOf(1), IdOf(2), IdOf(1)>>
  /\ "error" \in DOMAIN pmResult[1]
  /\ "error" \notin DOMAIN pmResult[2]
  /\ "error" \in DOMAIN pmResult[3]

Survivors == SelectSeq(hypotheses, LAMBDA h : h.passedReview)

\* C19: in a completed pipeline run no hypothesis with passedReview = false is
\* planned, run or written up, and there is one plan per surviving hypothesis,
\* one result per plan and one paper per result, the i-th of each referring to
\* the i-th surviving hypothesis; the run returns exactly these
C19_Aligned ==
  plPc = "done" =>
    /\ validHypotheses = Survivors
    /\ \A i \in 1..Len(plans) : plans[i].hypothesis.passedReview
    /\ Len(plans) = Len(Survivors)
    /\ Len(results) = Len(plans)
    /\ Len(papers) = Len(results)
    /\ \A i \in 1..Len(Survivors) :
         /\ plans[i].hypothesis = Survivors[i]
         /\ results[i].plan = plans[i]
         /\ papers[i].hypothesis = Survivors[i].statement
         /\ papers[i].isNegativeResult = results[i].negativeResult
    /\ plSettled = <<PipelineReturn(currentProject[1], Survivors, plans, results, papers)>>
    /\ CallsOf("planning.createPlan") = Len(Survivors)
    /\ CallsOf("execution.run") = Len(Survivors)
    /\ CallsOf("writing.write") = Len(Survivors)

\* C19 witness: a run completed with two different hypotheses, both reviewed as
\* passed, and a second paper on the second of them
C19_Witness ==
  /\ plPc = "done"
  /\ Len(hypotheses) = 2
  /\ hypotheses[1].statement # hypotheses[2].statement
  /\ Len(papers) = 2
  /\ papers[2].hypothesis = hypotheses[2].statement

\* every hypothesis parseHypotheses builds has passedReview = true
C19_AllPass == \A i \in 1..Len(hypotheses) : hypotheses[i].passedReview

AgentSucceeded == agSettled # <<>> /\ agSettled[1].value.success
AgentFailed == agSettled # <<>> /\ ~agSettled[1].value.success
GenerativeCallFor ==
  [summary |-> "summarizeFindings", abstract |-> "generateAbstract",
   competitive |-> "generateCompetitiveAnalysis", paper |-> "summarizeFindings",
   slides |-> "summarizeFindings", other |-> "summarizeFindings"]
     @@ ("kol-briefing" :> "generateKOLBriefing") @@ ("medical-info" :> "generateMedicalInfoResponse")

\* C20: a successful research invocation has issued exactly one Generative
\* Client call, the one of its task type (summarizeFindings for paper, slides
\* and unknown types), and after its answer exactly one Document Generator
\* write (generatePaper, generateSlides, else generateReport); an invocation
\* that failed has no write after the failure
C20_OneCallOneWrite ==
  /\ Len(veniceCalls) <= 1 /\ Len(outputCalls) <= 1
  /\ outputCalls # <<>> => (Len(veniceCalls) = 1 /\ Len(veniceAnswers) = 1 /\ vPc = "idle")
  /\ AgentSucceeded =>
       /\ veniceCalls = <<GenerativeCallFor[agTask]>>
       /\ veniceAnswers \in {<<"ok">>, <<"noContent">>}
       /\ outputCalls = <<IF agTask = "paper" THEN "generatePaper"
                          ELSE IF agTask = "slides" THEN "generateSlides"
                          ELSE "generateReport">>
       /\ outputAnswers = <<"written">>
  /\ AgentFailed =>
       /\ \A i \in 1..Len(outputAnswers) : outputAnswers[i] # "written"
       /\ Len(outputAnswers) = Len(outputCalls)
       /\ vPc = "idle"
       /\ ~ENABLED AgentNext

\* C20 witness: a slides invocation succeeded after one summarizeFindings call
\* and one generateSlides write
C20_Witness ==
  /\ AgentSucceeded
  /\ agTask = "slides"
  /\ veniceCalls = <<"summarizeFindings">>
  /\ outputCalls = <<"generateSlides">>

\* an invocation failed in its Document Generator call
C20_FailedWrite == AgentFailed /\ outputAnswers = <<"failed">>

LineRead(n) == Len(iaLines) >= n
ServedCommand(n) == LineRead(n) /\ CommandOf(Trim(iaLines[n])) # "quit"
LoopEnded == iaPc \in {"closed", "crashed", "stalled"}
LastCommand == CommandOf(Trim(iaLines[Len(iaLines)]))

\* C21 as stated: after every input line other than quit/exit the prompt is
\* eventually issued again, also when the command's search or fetch fails, and
\* only quit or exit ends the loop
C21_Original ==
  /\ \A n \in 1..MaxLines : ServedCommand(n) ~> (iaPrompts > n)
  /\ [](LoopEnded => (iaLines # <<>> /\ LastCommand = "quit"))

\* C21, what the code does: after an input line other than quit/exit the
\* prompt is issued again unless the line is a search command whose search
\* threw, which ends the loop with an unhandled rejection; a failed abstract
\* fetch and a failed research do not end it; quit and exit, padded with blanks
\* or not, close it
C21_Loop ==
  /\ \A n \in 1..MaxLines :
       ServedCommand(n) ~> (iaPrompts > n \/ iaPc \in {"crashed", "stalled"})
  /\ [](iaPc \in {"crashed", "stalled"} =>
          /\ iaLines # <<>> /\ StartsWith(Trim(iaLines[Len(iaLines)]), SearchPrefix)
          /\ iaResult # <<>> /\ iaResult[1].threw)
  /\ [](iaPc = "closed" <=>
          (iaLines # <<>> /\ Trim(iaLines[Len(iaLines)]) \in {QuitLine, ExitLine}))
  /\ [](iaPc = "prompt" => iaPrompts = Len(iaLines) + 1)

\* C21 witness: the prompt was issued a third time after an abstract command
\* whose fetch failed, and then a search command ended the loop when its
\* search threw
C21_Witness ==
  /\ iaPc \in {"crashed", "stalled"}
  /\ iaPrompts = 3
  /\ Len(iaLines) = 3
  /\ StartsWith(iaLines[2], AbstractPrefix)
  /\ StartsWith(iaLines[3], SearchPrefix)
  /\ iaResult[1].threw

====
